---------------------------- MODULE Spec2Model ----------------------------
(***************************************************************************)
(* Cuidame booking backend (Google Calendar as the only store).            *)
(*                                                                         *)
(* The repository holds several generations of the same server.  One      *)
(* behaviour of this model is one server process of one generation         *)
(* (`variant`) with its configuration, its clock and its time zone, and    *)
(* the HTTP requests it handles.  Every `await` of a handler is a step     *)
(* boundary: between two steps of one request any other request may run.   *)
(*                                                                         *)
(* Time.  An instant is a number of minutes since 00:00 UTC of day 0; day  *)
(* 0 is a Sunday, so the civil day-of-week of day d is d % 7 with JS's     *)
(* numbering (0 Sunday .. 6 Saturday).  A `YYYY-MM-DD` string is the day   *)
(* number it names.  A JS Date is the instant it holds; its local fields   *)
(* (getDay, getHours, ...) are taken in the server's zone, srvOff hours    *)
(* east of UTC.  Europe/Madrid is madOff hours east of UTC (1 in winter,   *)
(* 2 in summer).  A range "HH:MM-HH:MM" is the pair of its two times in    *)
(* minutes of the day.                                                     *)
(*                                                                         *)
(* Early returns.  The arms of a CASE are written in the order of the      *)
(* code's early returns and are read in that order: the first arm whose    *)
(* guard holds is the response, as TLC evaluates it.                       *)
(***************************************************************************)
EXTENDS Integers, Sequences, FiniteSets, TLC

VARIABLES
    variant,        \* which generation of the server this process runs
    srvOff,         \* UTC offset (hours) of the server process
    madOff,         \* UTC offset (hours) of Europe/Madrid on the days concerned
    LEAD_WORKDAYS,  \* process.env.LEAD_WORKDAYS
    ORG_CALENDARS,  \* process.env.ORG_CALENDARS, a sequence of calendar ids
    mailer,         \* whether a mail transport is configured
    RATE,           \* process.env.RATE, the hourly rate in euros
    IVA,            \* process.env.IVA, as a percentage (0.10 is 10)
    now,            \* the instant `new Date()` returns
    events,         \* the external calendars: a set of event records
    nextId,         \* next event id the calendar service hands out
    req             \* the requests, by request id

vars == <<variant, srvOff, madOff, LEAD_WORKDAYS, ORG_CALENDARS, mailer, RATE,
          IVA, now, events, nextId, req>>

config == <<variant, srvOff, madOff, LEAD_WORKDAYS, ORG_CALENDARS, mailer, RATE,
            IVA, now>>

(***************************************************************************)
(* Bounds of the model.                                                    *)
(***************************************************************************)
\* number of requests one behaviour handles
NReq == 2
\* largest LEAD_WORKDAYS explored
MaxLead == 5
\* requested dates reach this many days past the first "today" explored
DateSpan == 15
\* largest number of hours one reservation asks for when prices are explored
MaxHoras == 4
\* longest list of ranges given to the merge of contiguous hours
MaxMerge == 3

(***************************************************************************)
(* JS Date arithmetic.                                                     *)
(***************************************************************************)
\* toMin: h * 60 + m
MinPerHour == 60
MinPerDay == 24 * MinPerHour

\* Date.UTC(Y, M-1, D, h): the instant of hour h (UTC) of day d
DateUTC(d, h) == d * MinPerDay + h * MinPerHour

\* new Date(`${fecha}T${hh}:${mm}:00`): no offset in the string, so the
\* wall-clock time is taken in the server's zone
DateLocal(d, m) == d * MinPerDay + m - srvOff * MinPerHour

\* the server-local wall clock of an instant, in minutes since local 00:00 of day 0
LocalWall(t) == t + srvOff * MinPerHour

\* Date.prototype.getDate/getMonth/getFullYear: the local civil day
getDate(t) == LocalWall(t) \div MinPerDay

\* Date.prototype.getDay: local day of week, 0 Sunday .. 6 Saturday
getDay(t) == getDate(t) % 7

\* Date.prototype.getUTCDay
getUTCDay(t) == (t \div MinPerDay) % 7

\* Date.prototype.getHours / getMinutes (server-local)
getHours(t) == (LocalWall(t) % MinPerDay) \div MinPerHour
getMinutes(t) == LocalWall(t) % MinPerHour

\* d.setHours(0,0,0,0): local midnight of the local day of t
setHours0(t) == DateLocal(getDate(t), 0)

\* the civil day of week of a YYYY-MM-DD date: what the weekend rule is about
CivilDow(d) == d % 7
CivilWeekend(d) == CivilDow(d) \in {0, 6}

\* a date string that is no date and does not read YYYY-MM-DD
BadFecha == -1

\* a date string that reads YYYY-MM-DD and is no date, such as 2025-13-45: it
\* passes /^\d{4}-\d{2}-\d{2}$/ and new Date(`${fecha}T00:00:00`) is invalid
NoDateFecha == -2

\* isNaN(new Date(`${fecha}T00:00:00`))
InvalidDate(fecha) == fecha \in {BadFecha, NoDateFecha}

(***************************************************************************)
(* Date policy, src/server.js CommonJS variant.                            *)
(***************************************************************************)
\* addDays: x.setDate(x.getDate() + n) keeps the local time of day
addDays(t, n) == t + n * MinPerDay

RECURSIVE addWorkdaysLoop(_, _, _)
addWorkdaysLoop(d, added, workdays) ==
    IF added < workdays
    THEN LET x == addDays(d, 1)
             wd == getDay(x)
         IN addWorkdaysLoop(x, IF wd # 0 /\ wd # 6 THEN added + 1 ELSE added, workdays)
    ELSE d

\* addWorkdays counting every calendar day
addWorkdaysEveryDay(startDate, workdays) == addDays(startDate, workdays)

\* src/server.js:67 addWorkdays (CommonJS)
addWorkdays(startDate, workdays) == addWorkdaysLoop(startDate, 0, workdays)

\* fmtDate(d) is the local YYYY-MM-DD of d: the local day number
fmtDate(t) == getDate(t)

\* the weekend gate of the CommonJS handlers: new Date(`${fecha}T00:00:00`).getDay(),
\* NaN for an invalid date
weekendCjs(fecha) ==
    /\ ~InvalidDate(fecha)
    /\ LET dow == getDay(DateLocal(fecha, 0)) IN dow = 0 \/ dow = 6

\* beforeLeadCjs with <= for <: the earliest date itself is turned away
beforeLeadCjsInclusive(fecha) ==
    /\ ~InvalidDate(fecha)
    /\ LET min == addWorkdays(now, LEAD_WORKDAYS)
       IN DateLocal(fecha, 0) <= DateLocal(fmtDate(min), 0)

\* the lead gate of the CommonJS handlers; a comparison with an invalid date
\* is false
beforeLeadCjs(fecha) ==
    /\ ~InvalidDate(fecha)
    /\ LET min == addWorkdays(now, LEAD_WORKDAYS)
       IN DateLocal(fecha, 0) < DateLocal(fmtDate(min), 0)

(***************************************************************************)
(* Date policy, src/server.js ESM variant (and the later generations that  *)
(* copy it).                                                               *)
(***************************************************************************)
\* isWeekend = (d) => [0,6].includes(d.getDay())
isWeekend(t) == getDay(t) \in {0, 6}

RECURSIVE addWorkdaysEsmLoop(_, _, _)
addWorkdaysEsmLoop(x, added, n) ==
    IF added < n
    THEN LET y == addDays(x, 1)
         IN addWorkdaysEsmLoop(y, IF ~isWeekend(y) THEN added + 1 ELSE added, n)
    ELSE x

\* src/server.js:430 addWorkdays (ESM)
addWorkdaysEsm(d, n) == IF n <= 0 THEN d ELSE addWorkdaysEsmLoop(d, 0, n)

\* earliest = addWorkdays(new Date(), LEAD_WORKDAYS); earliest.setHours(0,0,0,0)
earliestEsm == setHours0(addWorkdaysEsm(now, LEAD_WORKDAYS))

\* qDate of the ESM handlers of src/server.js: new Date(`${fecha}T00:00:00`)
qDateEsm(fecha) == DateLocal(fecha, 0)

\* qDate of part_000 and of the first server of part_003: parseDateFlexible,
\* midnight UTC of the date
parseDateFlexible(fecha) == DateUTC(fecha, 0)

(***************************************************************************)
(* Ranges and catalogs.                                                    *)
(***************************************************************************)
\* the range "HH:00-(HH+1):00"
HourRange(h) == <<h * MinPerHour, (h + 1) * MinPerHour>>

\* the range "HH:00-KK:00"
Block(h, k) == <<h * MinPerHour, k * MinPerHour>>

\* src/server.js:40 SLOT_RANGES (CommonJS), also RANGES of part_003
SLOT_RANGES == <<HourRange(9), HourRange(10), HourRange(11), HourRange(12),
                 HourRange(13), HourRange(17), HourRange(18), HourRange(19)>>

\* src/server.js:436 getRanges (ESM), also part_000, part_002 (ranges), part_003
getRanges == <<HourRange(9), HourRange(10), HourRange(11), HourRange(12),
               HourRange(13), HourRange(16), HourRange(17), HourRange(18),
               HourRange(19)>>

\* part_004:49 RANGES: no 13:00-14:00, no 16:00-17:00
RANGES004 == <<HourRange(9), HourRange(10), HourRange(11), HourRange(12),
               HourRange(17), HourRange(18), HourRange(19)>>

Catalog ==
    IF variant \in {"cjs", "p003b"} THEN SLOT_RANGES
    ELSE IF variant = "p004a" THEN RANGES004
    ELSE getRanges

SeqToSet(s) == {s[i] : i \in 1..Len(s)}

Max(a, b) == IF a > b THEN a ELSE b
Min(a, b) == IF a < b THEN a ELSE b

\* src/server.js:99 overlap: Math.max(A1, B1) < Math.min(A2, B2)
overlap(rangeA, rangeB) ==
    Max(rangeA[1], rangeB[1]) < Min(rangeA[2], rangeB[2])

\* SelectSeq with a predicate that is an expression over the element
RECURSIVE FilterSeq(_, _)
FilterSeq(s, keep) ==
    IF s = <<>> THEN <<>>
    ELSE (IF Head(s) \in keep THEN <<Head(s)>> ELSE <<>>) \o FilterSeq(Tail(s), keep)

(***************************************************************************)
(* The external calendar.  An event is a record                            *)
(*   id        the id the calendar service gave it                         *)
(*   cal       the calendar it is in                                       *)
(*   s, e      its start and end instants                                  *)
(*   range     extendedProperties.private.range, NoRange when absent       *)
(*   cuidadora extendedProperties.private.cuidadora, "" when absent        *)
(*   by        the request that inserted it, 0 for an event made by hand   *)
(***************************************************************************)
NoRange == <<>>

Caregivers == {"Raquel", "Carmen"}

\* src/server.js:21 CAREGIVERS[name].calendarId
calendarId(name) == IF name = "Raquel" THEN "calRaquel" ELSE "calCarmen"

\* the wall clock of Europe/Madrid at an instant, minutes since 00:00 of day 0
MadridWall(t) == t + madOff * MinPerHour

\* an instant given as an RFC 3339 string with an offset (toISOString's Z): the
\* calendar service takes the instant as written; the timeZone field beside it
\* does not move it
InstantGiven(t) == t

\* a dateTime without offset and timeZone: 'Europe/Madrid': the calendar
\* service reads the wall clock in Madrid
InstantMadrid(d, m) == d * MinPerDay + m - madOff * MinPerHour

\* ListEvents that returns the events of every calendar
ListEventsAll(cal, timeMin, timeMax) ==
    {ev \in events : ev.e > timeMin /\ ev.s < timeMax}

\* events.list({calendarId, timeMin, timeMax}): the events of the calendar
\* that end after timeMin and start before timeMax
ListEvents(cal, timeMin, timeMax) ==
    {ev \in events : ev.cal = cal /\ ev.e > timeMin /\ ev.s < timeMax}

\* timeMin/timeMax of the day's query: `${fecha}T00:00:00.000Z` .. `${fecha}T23:59:59.999Z`
\* (timeMinISO/timeMaxISO in part_000 and part_003); part_003's second server
\* asks for the server-local day
DayEvents(cal, fecha) ==
    IF variant \in {"p003b", "p004a"}
    THEN ListEvents(cal, DateLocal(fecha, 0), DateLocal(fecha, MinPerDay))
    ELSE ListEvents(cal, DateUTC(fecha, 0), DateUTC(fecha, 24))

(***************************************************************************)
(* Occupancy, as each generation computes it from the listed events.       *)
(***************************************************************************)
\* src/server.js:189 / 273: the range stored in the event when there is one,
\* else the server-local HH:MM of its start and end
takenCjs(evs, range) ==
    \E ev \in evs :
        IF ev.range # NoRange
        THEN overlap(ev.range, range)
        ELSE overlap(<<getHours(ev.s) * MinPerHour + getMinutes(ev.s),
                       getHours(ev.e) * MinPerHour + getMinutes(ev.e)>>, range)

\* src/server.js:460 fmtHour: the hour of the instant in Europe/Madrid
fmtHour(t) == (MadridWall(t) % MinPerDay) \div MinPerHour

\* src/server.js:529 / 568: the set of `${sh}:00-${eh}:00` strings
takenSetEsm(evs) == {Block(fmtHour(ev.s), fmtHour(ev.e)) : ev \in evs}

takenEsm(evs, range) == range \in takenSetEsm(evs)

\* part_001:143 / 191: pad(st.getUTCHours()+2): the UTC hour plus two
utcHourPlus2(t) == ((t % MinPerDay) \div MinPerHour) + 2

\* part_001:139 / 187: the set of `${sh}:00-${eh}:00` strings
takenP001(evs, range) ==
    range \in {Block(utcHourPlus2(ev.s), utcHourPlus2(ev.e)) : ev \in evs}

\* part_002:62 offsetForTZ: Madrid's wall clock of now, parsed as server-local
\* time, minus now: Madrid's offset less the server's, in minutes
offsetForTZ == (madOff - srvOff) * MinPerHour

\* part_002:79 toISO(fecha, hhmm): the instant of `${fecha}T${hhmm}:00±HH:MM`
toISO(fecha, m) == fecha * MinPerDay + m - offsetForTZ

\* part_002:141 / 189: !(e <= b.start || s >= b.end) on strings.  s and e are
\* toISOString() texts (UTC wall clock, then ".000Z"); b.start and b.end are the
\* calendar's texts (Madrid wall clock, then "+01:00" or "+02:00").  Texts with
\* the same wall clock differ at that place, where "." sorts after "+".
takenP002(evs, fecha, range) ==
    LET s == toISO(fecha, range[1])
        e == toISO(fecha, range[2])
    IN \E b \in evs : ~(e < MadridWall(b.s) \/ s >= MadridWall(b.e))

\* part_003:294 toRFC3339: the range's wall clock taken in the server's zone
toRFC3339(fecha, range) ==
    [start |-> DateLocal(fecha, range[1]), end |-> DateLocal(fecha, range[2])]

\* part_003:343 / 386: rStart < end && rEnd > start on instants
takenP003b(evs, fecha, range) ==
    LET r == toRFC3339(fecha, range)
    IN \E ev \in evs : r.start < ev.e /\ r.end > ev.s

\* occupancy of a range as the variant's handlers compute it
Taken(evs, fecha, range) ==
    CASE variant = "cjs" -> takenCjs(evs, range)
      [] variant \in {"esm", "p000", "p003a"} -> takenEsm(evs, range)
      [] variant = "p001" -> takenP001(evs, range)
      [] variant = "p002" -> takenP002(evs, fecha, range)
      [] variant \in {"p003b", "p004a", "p004b"} -> takenP003b(evs, fecha, range)

(***************************************************************************)
(* Caregiver lookup.                                                       *)
(***************************************************************************)
\* src/server.js:455 normalize: NFD, strip combining marks, trim, lower case
normalize(name) ==
    CASE name \in {"Raquel", "raquel", "RAQUEL", "Ra'quel"} -> "raquel"
      [] name \in {"Carmen", "carmen", "CARMEN"} -> "carmen"
      [] OTHER -> name

\* the configured caregiver a request's `cuidadora` resolves to, "" when none:
\* CAREGIVERS[cuidadora] (CommonJS, part_001, part_002, part_003's second
\* server, part_004) or
\* caregiversIndex[normalize(cuidadora)] (ESM, part_000, part_003's first server)
Resolve(name) ==
    IF variant \in {"cjs", "p001", "p002", "p003b", "p004a", "p004b"}
    THEN IF name \in Caregivers THEN name ELSE ""
    ELSE IF \E k \in Caregivers : normalize(k) = normalize(name)
         THEN CHOOSE k \in Caregivers : normalize(k) = normalize(name)
         ELSE ""

(***************************************************************************)
(* Requests.  A request is a record                                        *)
(*   pc        "idle" (not arrived), "list", "insert", "mail", "mail2",    *)
(*             "hlist", "delete", "tlist", "tdelete" (awaiting that call), *)
(*             "hung" (awaiting a call that never completes), "done"       *)
(*             (answered)                                                  *)
(*   kind      "slots", "reserve", "health" or "cancel"                    *)
(*   cuidadora, fecha, horas   what the client sent                        *)
(*   fieldsOk  whether the other required fields of the body are there     *)
(*   listed    whether its events.list call has returned                   *)
(*   snap      the events that call returned                               *)
(*   todo      the insert calls still to make                              *)
(*   created   the ids its insert calls returned                           *)
(*   status, error, slots   the response                                   *)
(*   precio    the price summary of an ok reservation, NoPrecio otherwise  *)
(*   detail    what the 500 response carries of the upstream error         *)
(*   nlist, ninsert   the events.list and events.insert calls it has made  *)
(*   read      whether the calendarList.list call of a health check has    *)
(*             returned                                                    *)
(*   mailErr   whether a mailer.sendMail call of the request has thrown    *)
(*   nmail     the mailer.sendMail calls it has made                       *)
(*   eventIds  the event ids a cancellation names                          *)
(*   ndelete   the events.delete calls it has made                         *)
(*   removed   the events its delete calls took out of the calendars       *)
(*   deleted   the `deleted` of its ok response; in part_004, the counter  *)
(*             of the delete calls that returned                           *)
(*   token     the token GET /api/cancel/:token names                      *)
(*   cals      the calendars that request has still to search              *)
(***************************************************************************)

Reqs == 1..NReq

IdleReq ==
    [pc |-> "idle", kind |-> "", cuidadora |-> "", fecha |-> 0, horas |-> <<>>,
     listed |-> FALSE, snap |-> {}, todo |-> <<>>, created |-> <<>>,
     status |-> 0, error |-> "", slots |-> <<>>, precio |-> <<>>,
     detail |-> "", nlist |-> 0, ninsert |-> 0, read |-> FALSE,
     mailErr |-> FALSE, fieldsOk |-> TRUE, eventIds |-> <<>>, ndelete |-> 0,
     removed |-> 0, deleted |-> 0, token |-> 0, cals |-> <<>>, nmail |-> 0]

\* the outcome of the synchronous part of a handler: status 0 when it goes on
\* to the list call, else the response it sends
Pass == [status |-> 0, error |-> "", slots |-> <<>>]
Reject(st, err) == [status |-> st, error |-> err, slots |-> <<>>]
Grid(g) == [status |-> 200, error |-> "", slots |-> g]

\* src/server.js:218-253 POST /api/reserve (CommonJS), up to the list call
validateReserveCjs(c, f, h, fieldsOk) ==
    CASE ~fieldsOk \/ h = <<>> -> Reject(400, "campo_requerido")
      [] Resolve(c) = "" -> Reject(400, "cuidadora_invalida")
      [] f = BadFecha -> Reject(400, "fecha_invalida")
      [] weekendCjs(f) -> Reject(400, "solo_lunes_viernes")
      [] beforeLeadCjs(f) -> Reject(400, "lead_minimo")
      [] OTHER -> Pass

\* src/server.js:550-565 POST /api/reserve (ESM), up to the list call
validateReserveEsm(c, f, h, fieldsOk) ==
    CASE ~fieldsOk \/ h = <<>> -> Reject(400, "faltan_campos")
      [] Resolve(c) = "" -> Reject(400, "cuidadora_desconocida")
      [] InvalidDate(f) -> Reject(400, "fecha_no_disponible")
      [] isWeekend(qDateEsm(f)) -> Reject(400, "fecha_no_disponible")
      [] qDateEsm(f) < earliestEsm -> Reject(400, "antes_de_lead")
      [] OTHER -> Pass

\* part_000:132-144 and part_003:151-164 POST /api/reserve, up to the list call
validateReserveP000(c, f, h, fieldsOk) ==
    CASE ~fieldsOk \/ h = <<>> -> Reject(400, "faltan_campos")
      [] Resolve(c) = "" -> Reject(400, "cuidadora_desconocida")
      [] f = BadFecha -> Reject(400, "fecha_no_disponible")
      [] isWeekend(parseDateFlexible(f)) -> Reject(400, "fecha_no_disponible")
      [] parseDateFlexible(f) < earliestEsm -> Reject(400, "antes_de_lead")
      [] OTHER -> Pass

\* part_002:155-170 POST /api/reservar, up to the list call: no date policy
validateReserveP002(c, f, h, fieldsOk) ==
    CASE ~fieldsOk -> Reject(400, "Faltan datos personales")
      [] h = <<>> -> Reject(400, "Faltan cuidadora/fecha/horas")
      [] Resolve(c) = "" -> Reject(404, "Cuidadora no encontrada")
      [] OTHER -> Pass

\* part_003:271 isWeekend(dateStr): new Date(dateStr + 'T00:00:00').getDay()
isWeekendStr(f) == f # BadFecha /\ getDay(DateLocal(f, 0)) \in {0, 6}

RECURSIVE addWorkdaysP003Loop(_, _, _)
addWorkdaysP003Loop(x, c, n) ==
    IF c < n
    THEN LET y == addDays(x, 1)
         IN addWorkdaysP003Loop(y, IF getDay(y) \notin {0, 6} THEN c + 1 ELSE c, n)
    ELSE x

\* part_003:276 addWorkdays
addWorkdaysP003(from, n) == addWorkdaysP003Loop(from, 0, n)

\* the n of ensureMinWorkdays(fecha, 5) at part_003:369
MinWorkdaysP003 == 5

\* part_003:286 ensureMinWorkdays: sel >= normalizedMin (false for an invalid date)
ensureMinWorkdays(f, n) ==
    f # BadFecha /\ DateLocal(f, 0) >= DateLocal(getDate(addWorkdaysP003(now, n)), 0)

\* part_003:358-372 POST /api/reservar, up to the list call
validateReserveP003b(c, f, h, fieldsOk) ==
    CASE ~fieldsOk -> Reject(400, "faltan_campos")
      [] h = <<>> -> Reject(400, "faltan_horas")
      [] isWeekendStr(f) -> Reject(400, "weekend_not_allowed")
      [] ~ensureMinWorkdays(f, MinWorkdaysP003) -> Reject(400, "min_workdays_not_met")
      [] Resolve(c) = "" -> Reject(404, "caregiver_not_found")
      [] OTHER -> Pass

\* part_004:186-202 POST /api/reservar, up to the list call
validateReserveP004a(c, f, h, fieldsOk) ==
    CASE ~fieldsOk -> Reject(400, "Faltan datos personales")
      [] h = <<>> -> Reject(400, "Elige al menos una franja")
      [] isWeekendStr(f) -> Reject(400, "weekend_not_allowed")
      [] ~ensureMinWorkdays(f, MinWorkdaysP003) -> Reject(400, "min_workdays_not_met")
      [] Resolve(c) = "" -> Reject(404, "caregiver_not_found")
      [] OTHER -> Pass

\* part_001:160-175 POST /api/reserve, up to the list call
validateReserveP001(c, f, h, fieldsOk) ==
    CASE ~fieldsOk \/ h = <<>> -> Reject(400, "faltan_campos")
      [] Resolve(c) = "" -> Reject(400, "cuidadora_desconocida")
      [] InvalidDate(f) -> Reject(400, "fecha_no_disponible")
      [] isWeekend(qDateEsm(f)) -> Reject(400, "fecha_no_disponible")
      [] qDateEsm(f) < earliestEsm -> Reject(400, "antes_de_lead")
      [] OTHER -> Pass

\* part_004:370-383 POST /api/reserve (second server), up to the list call:
\* no date policy
validateReserveP004b(c, f, h, fieldsOk) ==
    CASE ~fieldsOk \/ c = "" \/ h = <<>> -> Reject(400, "missing_fields")
      [] Resolve(c) = "" -> Reject(404, "cuidadora_not_found")
      [] OTHER -> Pass

validateReserve(c, f, h, fieldsOk) ==
    CASE variant = "cjs" -> validateReserveCjs(c, f, h, fieldsOk)
      [] variant = "esm" -> validateReserveEsm(c, f, h, fieldsOk)
      [] variant = "p001" -> validateReserveP001(c, f, h, fieldsOk)
      [] variant \in {"p000", "p003a"} -> validateReserveP000(c, f, h, fieldsOk)
      [] variant = "p002" -> validateReserveP002(c, f, h, fieldsOk)
      [] variant = "p003b" -> validateReserveP003b(c, f, h, fieldsOk)
      [] variant = "p004a" -> validateReserveP004a(c, f, h, fieldsOk)
      [] variant = "p004b" -> validateReserveP004b(c, f, h, fieldsOk)

\* SLOT_RANGES.map((r) => ({ range: r, taken: true }))
AllTaken == [i \in 1..Len(Catalog) |-> [range |-> Catalog[i], taken |-> TRUE]]

\* src/server.js:146-169 GET /api/slots (CommonJS), up to the list call
validateSlotsCjs(c, f) ==
    CASE Resolve(c) = "" -> Reject(400, "cuidadora_invalida")
      [] f = BadFecha -> Reject(400, "fecha_invalida")
      [] weekendCjs(f) -> Grid(AllTaken)
      [] beforeLeadCjs(f) -> Grid(AllTaken)
      [] OTHER -> Pass

\* src/server.js:510-525 GET /api/slots (ESM), up to the list call
validateSlotsEsm(c, f) ==
    CASE c = "" -> Reject(400, "faltan_parametros")
      [] Resolve(c) = "" -> Reject(400, "cuidadora_desconocida")
      [] InvalidDate(f) -> Reject(400, "fecha_invalida")
      [] isWeekend(qDateEsm(f)) -> Grid(<<>>)
      [] qDateEsm(f) < earliestEsm -> Grid(<<>>)
      [] OTHER -> Pass

\* part_000:89-102 and part_003:115-128 GET /api/slots, up to the list call
validateSlotsP000(c, f) ==
    CASE c = "" -> Reject(400, "faltan_parametros")
      [] Resolve(c) = "" -> Reject(400, "cuidadora_desconocida")
      [] f = BadFecha -> Reject(400, "fecha_invalida")
      [] isWeekend(parseDateFlexible(f)) -> Grid(<<>>)
      [] parseDateFlexible(f) < earliestEsm -> Grid(<<>>)
      [] OTHER -> Pass

\* part_002:114-121 GET /api/slots, up to the list call
validateSlotsP002(c, f) ==
    CASE c = "" -> Reject(400, "Missing fecha or cuidadora")
      [] Resolve(c) = "" -> Reject(404, "Cuidadora no encontrada")
      [] OTHER -> Pass

\* part_003:321-330 GET /api/slots (second server), up to the list call
validateSlotsP003b(c, f) ==
    CASE c = "" -> Reject(400, "missing_params")
      [] isWeekendStr(f) -> Grid(AllTaken)
      [] Resolve(c) = "" -> Reject(404, "caregiver_not_found")
      [] OTHER -> Pass

\* part_001:106-123 GET /api/slots, up to the list call
validateSlotsP001(c, f) ==
    CASE c = "" -> Reject(400, "faltan parametros")
      [] InvalidDate(f) -> Reject(400, "fecha invalida")
      [] isWeekend(qDateEsm(f)) -> Grid(<<>>)
      [] qDateEsm(f) < earliestEsm -> Grid(<<>>)
      [] Resolve(c) = "" -> Reject(400, "cuidadora desconocida")
      [] OTHER -> Pass

\* part_004:326-330 GET /api/slots (second server), up to the list call
validateSlotsP004b(c, f) ==
    CASE c = "" -> Reject(400, "fecha y cuidadora son obligatorios")
      [] Resolve(c) = "" -> Reject(404, "cuidadora no encontrada")
      [] OTHER -> Pass

validateSlots(c, f) ==
    CASE variant = "cjs" -> validateSlotsCjs(c, f)
      [] variant = "esm" -> validateSlotsEsm(c, f)
      [] variant = "p001" -> validateSlotsP001(c, f)
      [] variant \in {"p000", "p003a"} -> validateSlotsP000(c, f)
      [] variant = "p002" -> validateSlotsP002(c, f)
      [] variant \in {"p003b", "p004a"} -> validateSlotsP003b(c, f)
      [] variant = "p004b" -> validateSlotsP004b(c, f)

(***************************************************************************)
(* The events a reservation inserts.                                       *)
(***************************************************************************)
\* src/server.js:84 buildSlotISO: the HH:MM of the two local Dates, in minutes
buildSlotISO(fecha, range) ==
    LET start == DateLocal(fecha, range[1])
        end == DateLocal(fecha, range[2])
    IN [startISO |-> getHours(start) * MinPerHour + getMinutes(start),
        endISO |-> getHours(end) * MinPerHour + getMinutes(end)]

\* src/server.js:442 rangeToDateTimes (also part_000:51, part_003:70): the hour
\* of each end of the range, as an UTC instant
rangeToDateTimes(fecha, range) ==
    [start |-> DateUTC(fecha, range[1] \div MinPerHour),
     end |-> DateUTC(fecha, range[2] \div MinPerHour)]

\* src/calendar.js:55 slotToDateTimes: Date.UTC(Y, M, D, sh) and Date.UTC(Y, M,
\* D, eh) as toISOString() texts
slotToDateTimes(fecha, range) ==
    [start |-> DateUTC(fecha, range[1] \div MinPerHour),
     end |-> DateUTC(fecha, range[2] \div MinPerHour)]

\* part_001:93 rangeToDateTimes: Date.UTC(Y, M-1, D, sh - 2, sm), two hours
\* before the range's wall clock taken as UTC
rangeToDateTimesP001(fecha, range) ==
    [start |-> DateUTC(fecha, 0) + range[1] - 2 * MinPerHour,
     end |-> DateUTC(fecha, 0) + range[2] - 2 * MinPerHour]

\* index of a range in the catalog, 0 when it is not in it
RECURSIVE IndexIn(_, _, _)
IndexIn(r, cat, i) ==
    IF i > Len(cat) THEN 0 ELSE IF cat[i] = r THEN i ELSE IndexIn(r, cat, i + 1)

order(r) == IndexIn(r, getRanges, 1)

\* [...horas].sort((a, b) => order.get(a) - order.get(b)): stable, by catalog index
RECURSIVE InsertSorted(_, _)
InsertSorted(r, sorted) ==
    IF sorted = <<>> THEN <<r>>
    ELSE IF order(r) < order(Head(sorted)) THEN <<r>> \o sorted
         ELSE <<Head(sorted)>> \o InsertSorted(r, Tail(sorted))

RECURSIVE SortByOrder(_)
SortByOrder(horas) ==
    IF horas = <<>> THEN <<>>
    ELSE InsertSorted(horas[Len(horas)], SortByOrder(SubSeq(horas, 1, Len(horas) - 1)))

RECURSIVE MergeLoop(_, _)
MergeLoop(sorted, merged) ==
    IF sorted = <<>> THEN merged
    ELSE LET r == Head(sorted) IN
         IF merged = <<>> THEN MergeLoop(Tail(sorted), <<r>>)
         ELSE LET last == merged[Len(merged)] IN
              IF r[1] = last[2]
              THEN MergeLoop(Tail(sorted),
                             [merged EXCEPT ![Len(merged)] = <<last[1], r[2]>>])
              ELSE MergeLoop(Tail(sorted), Append(merged, r))

\* part_002:84 mergeContiguousSlots
mergeContiguousSlots(horas) == MergeLoop(SortByOrder(horas), <<>>)

\* part_000:164 Array.from(new Set([...])): first occurrences, in order
RECURSIVE Dedup(_)
Dedup(s) ==
    IF s = <<>> THEN <<>>
    ELSE LET front == Dedup(SubSeq(s, 1, Len(s) - 1))
             x == s[Len(s)]
         IN IF x \in SeqToSet(front) THEN front ELSE Append(front, x)

\* the calendars a reservation writes to
writeCalendars(key) ==
    CASE variant = "p000" -> Dedup(<<calendarId(key)>> \o ORG_CALENDARS)
      [] variant = "p003a" -> <<calendarId(key)>> \o ORG_CALENDARS
      [] OTHER -> <<calendarId(key)>>

\* the requestBody of the insert call for one range (one block in part_002) and
\* one calendar, as the event the calendar service makes of it
EventFor(cal, key, fecha, r) ==
    CASE variant = "cjs" ->
           [cal |-> cal, range |-> r, cuidadora |-> "",
            s |-> InstantMadrid(fecha, buildSlotISO(fecha, r).startISO),
            e |-> InstantMadrid(fecha, buildSlotISO(fecha, r).endISO)]
      [] variant = "esm" ->
           [cal |-> cal, range |-> NoRange, cuidadora |-> "",
            s |-> InstantGiven(rangeToDateTimes(fecha, r).start),
            e |-> InstantGiven(rangeToDateTimes(fecha, r).end)]
      [] variant = "p004b" ->
           [cal |-> cal, range |-> NoRange, cuidadora |-> "",
            s |-> InstantGiven(slotToDateTimes(fecha, r).start),
            e |-> InstantGiven(slotToDateTimes(fecha, r).end)]
      [] variant \in {"p000", "p003a"} ->
           [cal |-> cal, range |-> r, cuidadora |-> key,
            s |-> InstantGiven(rangeToDateTimes(fecha, r).start),
            e |-> InstantGiven(rangeToDateTimes(fecha, r).end)]
      [] variant = "p001" ->
           [cal |-> cal, range |-> r, cuidadora |-> "",
            s |-> InstantGiven(rangeToDateTimesP001(fecha, r).start),
            e |-> InstantGiven(rangeToDateTimesP001(fecha, r).end)]
      [] variant = "p002" ->
           [cal |-> cal, range |-> NoRange, cuidadora |-> "",
            s |-> InstantMadrid(fecha, r[1]),
            e |-> InstantMadrid(fecha, r[2])]
      [] variant \in {"p003b", "p004a"} ->
           [cal |-> cal, range |-> r, cuidadora |-> "",
            s |-> InstantGiven(toRFC3339(fecha, r).start),
            e |-> InstantGiven(toRFC3339(fecha, r).end)]

\* Bloques with the merge of contiguous hours applied in every generation
BloquesMerged(horas) == mergeContiguousSlots(horas)

\* the blocks the creation loop runs over: the requested ranges, merged in part_002
Bloques(horas) ==
    IF variant = "p002" THEN mergeContiguousSlots(horas) ELSE horas

\* the insert calls of a reservation, in the order the loops make them
RECURSIVE InsertPlan(_, _, _)
InsertPlan(key, fecha, blocks) ==
    IF blocks = <<>> THEN <<>>
    ELSE LET cals == writeCalendars(key)
         IN [i \in 1..Len(cals) |-> EventFor(cals[i], key, fecha, Head(blocks))]
            \o InsertPlan(key, fecha, Tail(blocks))

(***************************************************************************)
(* The price summary of an ok reservation.  Amounts are in ten-thousandths *)
(* of a euro, so that a rounding to cents is a computation; IVA is a       *)
(* percentage, so x * IVA of the code is x * IVA / 100 here.               *)
(***************************************************************************)
PerEuro == 100 * 100
PerCent == 100

\* no price in the response
NoPrecio == <<>>

\* src/server.js:15-16 the defaults of RATE and IVA
DefaultRate == 18
DefaultIva == 10

\* part_004:255-256 const RATE = 18; const IVA = 0.1
RATE004 == 18
IVA004 == 10

\* precioCjs with the tax of one hour whatever the number of hours
precioCjsTaxOnRate(horasCount) ==
    LET subtotal == horasCount * RATE * PerEuro
        iva == (RATE * PerEuro * IVA) \div 100
        total == subtotal + iva
    IN [horas |-> horasCount, subtotal |-> subtotal, iva |-> iva, total |-> total]

\* src/server.js:350-353 subtotal = horasCount * RATE; iva = subtotal * IVA;
\* total = subtotal + iva
precioCjs(horasCount) ==
    LET subtotal == horasCount * RATE * PerEuro
        iva == (subtotal * IVA) \div 100
        total == subtotal + iva
    IN [horas |-> horasCount, subtotal |-> subtotal, iva |-> iva, total |-> total]

\* src/server.js:602-607 (also part_000:184, part_001:257, part_003:202): each amount from
\* RATE * horas.length
precioEsm(n) ==
    [horas |-> n,
     subtotal |-> RATE * n * PerEuro,
     iva |-> (RATE * n * PerEuro * IVA) \div 100,
     total |-> (RATE * n * PerEuro * (100 + IVA)) \div 100]

\* Number.prototype.toFixed(2), read back with unary +: the nearest cent
toFixed2(x) == ((x + PerCent \div 2) \div PerCent) * PerCent

\* part_004:255-260
precioP004(horasCount) ==
    LET subtotal == horasCount * RATE004 * PerEuro
        iva == toFixed2((subtotal * IVA004) \div 100)
        total == toFixed2(subtotal + iva)
    IN [horas |-> horasCount, subtotal |-> subtotal, iva |-> iva, total |-> total]

\* the precio of the ok response; part_002 and part_003's second server send none
Precio(k) ==
    CASE variant = "cjs" -> precioCjs(k)
      [] variant \in {"esm", "p000", "p001", "p003a"} -> precioEsm(k)
      [] variant = "p004a" -> precioP004(k)
      [] OTHER -> NoPrecio

(***************************************************************************)
(* The handlers, one action per stretch between two awaits.                *)
(***************************************************************************)
\* whether the handler awaits a mail transport after the inserts:
\* src/server.js:323 (emailEnabled && mailer), src/server.js:420, part_001:52
\* and part_003:46 (sendMail returns at once without a mailer)
HasMail == mailer /\ variant \in {"cjs", "esm", "p001", "p003a"}

Respond(p, st, err, sl) ==
    req' = [req EXCEPT ![p].pc = "done", ![p].status = st, ![p].error = err,
                       ![p].slots = sl]

\* GET /api/slots arrives: everything up to `await calendar.events.list`
StartSlots(p, c, f) ==
    /\ req[p].pc = "idle"
    /\ \A q \in Reqs : q < p => req[q].pc # "idle"
    /\ LET v == validateSlots(c, f)
       IN req' = [req EXCEPT ![p] =
                    [IdleReq EXCEPT !.kind = "slots", !.cuidadora = c, !.fecha = f,
                                    !.pc = IF v.status = 0 THEN "list" ELSE "done",
                                    !.status = v.status, !.error = v.error,
                                    !.slots = v.slots,
                                    !.nlist = IF v.status = 0 THEN 1 ELSE 0]]
    /\ UNCHANGED <<config, events, nextId>>

\* POST /api/reserve (or /api/reservar) arrives: everything up to the list call
StartReserve(p, c, f, h, fieldsOk) ==
    /\ req[p].pc = "idle"
    /\ \A q \in Reqs : q < p => req[q].pc # "idle"
    /\ LET v == validateReserve(c, f, h, fieldsOk)
       IN req' = [req EXCEPT ![p] =
                    [IdleReq EXCEPT !.kind = "reserve", !.cuidadora = c, !.fecha = f,
                                    !.horas = h, !.fieldsOk = fieldsOk,
                                    !.pc = IF v.status = 0 THEN "list" ELSE "done",
                                    !.status = v.status, !.error = v.error,
                                    !.slots = v.slots,
                                    !.nlist = IF v.status = 0 THEN 1 ELSE 0]]
    /\ UNCHANGED <<config, events, nextId>>

\* SlotsGrid answering the grid of a closed day
SlotsGridClosed(evs, fecha) ==
    [i \in 1..Len(Catalog) |-> [range |-> Catalog[i], taken |-> TRUE]]

\* SlotsGrid marking a range only when an event starts and ends with it
SlotsGridExact(evs, fecha) ==
    [i \in 1..Len(Catalog) |->
        [range |-> Catalog[i],
         taken |-> \E ev \in evs :
                      /\ ev.s = InstantMadrid(fecha, Catalog[i][1])
                      /\ ev.e = InstantMadrid(fecha, Catalog[i][2])]]

\* slots = catalog.map(range => ({ range, taken }))
SlotsGrid(evs, fecha) ==
    [i \in 1..Len(Catalog) |->
        [range |-> Catalog[i], taken |-> Taken(evs, fecha, Catalog[i])]]

\* Conflicts with a check that stops at the first taken range
ConflictsFirstOnly(evs, fecha, horas) ==
    LET hit == FilterSeq(horas, {r \in SeqToSet(horas) : Taken(evs, fecha, r)})
    IN IF hit = <<>> THEN <<>> ELSE <<Head(hit)>>

\* the conflict list of the reservation handlers: the requested ranges that are
\* taken, in request order; part_002 stops at the first (horas.find), part_003's
\* second server collects them in a Set
Conflicts(evs, fecha, horas) ==
    LET hit == FilterSeq(horas, {r \in SeqToSet(horas) : Taken(evs, fecha, r)})
    IN CASE variant = "p002" -> IF hit = <<>> THEN <<>> ELSE <<Head(hit)>>
         [] variant \in {"p003b", "p004a"} -> Dedup(hit)
         [] OTHER -> hit

\* ListOk with the listed events of a caregiver and day kept for later
\* requests: a request for which an earlier one has listed answers from what
\* that one listed
ListOkCached(p) ==
    /\ req[p].pc = "list"
    /\ ~InvalidDate(req[p].fecha)
    /\ LET r == req[p]
           key == Resolve(r.cuidadora)
           earlier == {q \in Reqs : /\ q # p /\ req[q].listed
                                    /\ req[q].fecha = r.fecha
                                    /\ Resolve(req[q].cuidadora) = key}
           evs == IF earlier = {}
                  THEN DayEvents(calendarId(key), r.fecha)
                  ELSE req[CHOOSE q \in earlier : TRUE].snap
           conflicts == Conflicts(evs, r.fecha, r.horas)
       IN req' = [req EXCEPT ![p] =
            IF r.kind = "slots"
            THEN [r EXCEPT !.pc = "done", !.listed = TRUE, !.snap = evs,
                           !.status = 200, !.slots = SlotsGrid(evs, r.fecha)]
            ELSE IF conflicts # <<>>
            THEN [r EXCEPT !.pc = "done", !.listed = TRUE, !.snap = evs,
                           !.status = 409, !.error = "conflicto",
                           !.slots = conflicts]
            ELSE [r EXCEPT !.pc = "insert", !.listed = TRUE, !.snap = evs,
                           !.todo = InsertPlan(key, r.fecha, Bloques(r.horas)),
                           !.ninsert = 1]]
    /\ UNCHANGED <<config, events, nextId>>

\* ListOk in which a slots query also puts a hold on the first catalog range
ListOkHolding(p) ==
    /\ req[p].pc = "list"
    /\ ~InvalidDate(req[p].fecha)
    /\ LET r == req[p]
           key == Resolve(r.cuidadora)
           evs == DayEvents(calendarId(key), r.fecha)
           conflicts == Conflicts(evs, r.fecha, r.horas)
           hold == EventFor(calendarId(key), key, r.fecha, Catalog[1])
       IN /\ req' = [req EXCEPT ![p] =
               IF r.kind = "slots"
               THEN [r EXCEPT !.pc = "done", !.listed = TRUE, !.snap = evs,
                              !.status = 200, !.slots = SlotsGrid(evs, r.fecha)]
               ELSE IF conflicts # <<>>
               THEN [r EXCEPT !.pc = "done", !.listed = TRUE, !.snap = evs,
                              !.status = 409, !.error = "conflicto",
                              !.slots = conflicts]
               ELSE [r EXCEPT !.pc = "insert", !.listed = TRUE, !.snap = evs,
                              !.todo = InsertPlan(key, r.fecha, Bloques(r.horas)),
                              !.ninsert = 1]]
          /\ events' = IF r.kind = "slots"
                       THEN events \cup {[id |-> nextId, cal |-> hold.cal, s |-> hold.s,
                                           e |-> hold.e, range |-> hold.range,
                                           cuidadora |-> hold.cuidadora, by |-> p]}
                       ELSE events
    /\ nextId' = nextId
    /\ UNCHANGED config

\* the events.list call returns: the rest of GET /api/slots, or the conflict
\* check of the reservation up to the first `await calendar.events.insert`
ListOk(p) ==
    /\ req[p].pc = "list"
    /\ ~InvalidDate(req[p].fecha)
    /\ LET r == req[p]
           key == Resolve(r.cuidadora)
           evs == DayEvents(calendarId(key), r.fecha)
           conflicts == Conflicts(evs, r.fecha, r.horas)
       IN req' = [req EXCEPT ![p] =
            IF r.kind = "slots"
            THEN [r EXCEPT !.pc = "done", !.listed = TRUE, !.snap = evs,
                           !.status = 200, !.slots = SlotsGrid(evs, r.fecha)]
            ELSE IF conflicts # <<>>
            THEN [r EXCEPT !.pc = "done", !.listed = TRUE, !.snap = evs,
                           !.status = 409, !.error = "conflicto",
                           !.slots = conflicts]
            ELSE [r EXCEPT !.pc = "insert", !.listed = TRUE, !.snap = evs,
                           !.todo = InsertPlan(key, r.fecha, Bloques(r.horas)),
                           !.ninsert = 1]]
    /\ UNCHANGED <<config, events, nextId>>

\* the error payloads of the calendar service explored: e.response.data or
\* e.message of the thrown error
UpstreamErrors == {"invalid_grant", "notFound"}

\* what the catch block puts of the thrown error e in the response body:
\* src/server.js:545 and 611 (also part_000:126 and 187, part_003:145 and 206)
\* detail: e?.response?.data || e?.message; part_003:351 and 425 details:
\* err.message; src/server.js:211 and 365, part_002:148 and 220, part_004:166
\* and 271 nothing
Detail(e) ==
    IF variant \in {"esm", "p000", "p003a", "p003b"} THEN e ELSE ""

\* the catch block of a handler answers 500 for the thrown error e
Fail(p, e) ==
    req' = [req EXCEPT ![p].pc = "done", ![p].status = 500,
                       ![p].error = "server_error", ![p].slots = <<>>,
                       ![p].detail = Detail(e)]

\* ListFail taking a failed list for an empty day: the slots query answers the
\* grid of a free day, the reservation goes on to its inserts
ListFailOpen(p) ==
    /\ req[p].pc = "list"
    /\ LET r == req[p]
           key == Resolve(r.cuidadora)
       IN req' = [req EXCEPT ![p] =
            IF r.kind = "slots"
            THEN [r EXCEPT !.pc = "done", !.status = 200,
                           !.slots = SlotsGrid({}, r.fecha)]
            ELSE [r EXCEPT !.pc = "insert",
                           !.todo = InsertPlan(key, r.fecha, Bloques(r.horas)),
                           !.ninsert = 1]]
    /\ UNCHANGED <<config, events, nextId>>

\* the events.list call throws (auth, network, unknown calendar, bad timeMin)
ListFail(p) ==
    /\ req[p].pc = "list"
    /\ \E e \in UpstreamErrors : Fail(p, e)
    /\ UNCHANGED <<config, events, nextId>>

\* InsertOk on a calendar that keeps one event per calendar, start and end: a
\* second insert of the same slot returns without adding an event
InsertOkOnce(p) ==
    /\ req[p].pc = "insert"
    /\ LET r == req[p]
           t == Head(r.todo)
           ev == [id |-> nextId, cal |-> t.cal, s |-> t.s, e |-> t.e,
                  range |-> t.range, cuidadora |-> t.cuidadora, by |-> p]
           rest == Tail(r.todo)
           dup == \E x \in events : x.cal = t.cal /\ x.s = t.s /\ x.e = t.e
       IN /\ events' = IF dup THEN events ELSE events \cup {ev}
          /\ req' = [req EXCEPT ![p] =
               IF rest # <<>>
               THEN [r EXCEPT !.todo = rest, !.created = Append(r.created, nextId),
                              !.ninsert = r.ninsert + 1]
               ELSE IF HasMail
               THEN [r EXCEPT !.todo = rest, !.created = Append(r.created, nextId),
                              !.pc = "mail", !.nmail = 1]
               ELSE [r EXCEPT !.todo = rest, !.created = Append(r.created, nextId),
                              !.pc = "done", !.status = 200,
                              !.slots = Bloques(r.horas),
                              !.precio = Precio(Len(r.horas))]]
    /\ nextId' = nextId + 1
    /\ UNCHANGED config

\* an events.insert call returns: the event exists; the loop goes on to the
\* next insert, or the handler goes on to the mail or to the response
InsertOk(p) ==
    /\ req[p].pc = "insert"
    /\ LET r == req[p]
           t == Head(r.todo)
           ev == [id |-> nextId, cal |-> t.cal, s |-> t.s, e |-> t.e,
                  range |-> t.range, cuidadora |-> t.cuidadora, by |-> p]
           rest == Tail(r.todo)
       IN /\ events' = events \cup {ev}
          /\ req' = [req EXCEPT ![p] =
               IF rest # <<>>
               THEN [r EXCEPT !.todo = rest, !.created = Append(r.created, nextId),
                              !.ninsert = r.ninsert + 1]
               ELSE IF HasMail
               THEN [r EXCEPT !.todo = rest, !.created = Append(r.created, nextId),
                              !.pc = "mail", !.nmail = 1]
               ELSE [r EXCEPT !.todo = rest, !.created = Append(r.created, nextId),
                              !.pc = "done", !.status = 200,
                              !.slots = Bloques(r.horas),
                              !.precio = Precio(Len(r.horas))]]
    /\ nextId' = nextId + 1
    /\ UNCHANGED config

\* InsertFail with one more try: the handler makes the failed insert call again,
\* once, before it gives up
InsertFailRetry(p) ==
    /\ req[p].pc = "insert"
    /\ IF req[p].ninsert <= Len(req[p].horas)
       THEN req' = [req EXCEPT ![p].ninsert = req[p].ninsert + 1]
       ELSE \E e \in UpstreamErrors : Fail(p, e)
    /\ UNCHANGED <<config, events, nextId>>

\* InsertFail in which the handler still goes on to the confirmation mail
InsertFailMails(p) ==
    /\ req[p].pc = "insert"
    /\ IF HasMail
       THEN req' = [req EXCEPT ![p].pc = "mail", ![p].nmail = 1]
       ELSE \E e \in UpstreamErrors : Fail(p, e)
    /\ UNCHANGED <<config, events, nextId>>

\* an events.insert call throws: the catch block answers 500; nothing is undone
InsertFail(p) ==
    /\ req[p].pc = "insert"
    /\ \E e \in UpstreamErrors : Fail(p, e)
    /\ UNCHANGED <<config, events, nextId>>

\* a mailer.sendMail call returns: part_001's sendMail goes on to the internal
\* copy (part_001:58, the client's address not being the internal one), the
\* others to the ok response
MailDone(p) ==
    /\ req[p].pc \in {"mail", "mail2"}
    /\ req' = [req EXCEPT ![p] =
           IF variant = "p001" /\ req[p].pc = "mail"
           THEN [req[p] EXCEPT !.pc = "mail2", !.nmail = req[p].nmail + 1]
           ELSE [req[p] EXCEPT !.pc = "done", !.status = 200,
                               !.slots = Bloques(req[p].horas),
                               !.precio = Precio(Len(req[p].horas))]]
    /\ UNCHANGED <<config, events, nextId>>

\* MailFail without the catch block around the mail: the handler's own catch
\* block answers 500
MailFailAborts(p) ==
    /\ req[p].pc \in {"mail", "mail2"}
    /\ req' = [req EXCEPT ![p] =
           [req[p] EXCEPT !.pc = "done", !.status = 500, !.mailErr = TRUE,
                          !.error = "server_error"]]
    /\ UNCHANGED <<config, events, nextId>>

\* a mailer.sendMail call throws: the catch block around it logs the error
\* (src/server.js:344, src/server.js:424, part_001:61) and the handler goes on
\* to the ok response
MailFail(p) ==
    /\ req[p].pc \in {"mail", "mail2"}
    /\ req' = [req EXCEPT ![p] =
           [req[p] EXCEPT !.pc = "done", !.status = 200, !.mailErr = TRUE,
                          !.slots = Bloques(req[p].horas),
                          !.precio = Precio(Len(req[p].horas))]]
    /\ UNCHANGED <<config, events, nextId>>

\* GET /api/health arrives: src/server.js:140 and 615 (also part_000:66,
\* part_001:273, part_003:98 and 318, part_004:122) answer ok at once;
\* part_002:102 awaits calendar.calendarList.list
StartHealth(p) ==
    /\ req[p].pc = "idle"
    /\ \A q \in Reqs : q < p => req[q].pc # "idle"
    /\ req' = [req EXCEPT ![p] =
           IF variant = "p002"
           THEN [IdleReq EXCEPT !.kind = "health", !.pc = "hlist"]
           ELSE [IdleReq EXCEPT !.kind = "health", !.pc = "done", !.status = 200]]
    /\ UNCHANGED <<config, events, nextId>>

\* part_002:105-106 the calendarList.list call returns: ok
HealthOk(p) ==
    /\ req[p].pc = "hlist"
    /\ req' = [req EXCEPT ![p].pc = "done", ![p].status = 200, ![p].read = TRUE]
    /\ UNCHANGED <<config, events, nextId>>

\* part_002:107-109 the calendarList.list call throws (the credential does not
\* authenticate, the network fails): 500 with the error's message
HealthFail(p) ==
    /\ req[p].pc = "hlist"
    /\ \E e \in UpstreamErrors : Respond(p, 500, e, <<>>)
    /\ UNCHANGED <<config, events, nextId>>

\* part_003:431-435 POST /api/cancel, up to the first delete call
validateCancel(c, ids) ==
    CASE c = "" \/ ids = <<>> -> Reject(400, "missing_params")
      [] Resolve(c) = "" -> Reject(404, "caregiver_not_found")
      [] OTHER -> Pass

\* POST /api/cancel arrives: everything up to the first
\* `await calendar.events.delete`
StartCancel(p, c, ids) ==
    /\ req[p].pc = "idle"
    /\ \A q \in Reqs : q < p => req[q].pc # "idle"
    /\ LET v == validateCancel(c, ids)
       IN req' = [req EXCEPT ![p] =
                    [IdleReq EXCEPT !.kind = "cancel", !.cuidadora = c, !.eventIds = ids,
                                    !.pc = IF v.status = 0 THEN "delete" ELSE "done",
                                    !.status = v.status, !.error = v.error,
                                    !.ndelete = IF v.status = 0 THEN 1 ELSE 0]]
    /\ UNCHANGED <<config, events, nextId>>

\* the event of a calendar with an id: what events.delete({calendarId, eventId})
\* is about
EventWithId(cal, id) == {ev \in events : ev.cal = cal /\ ev.id = id}

\* DeleteOk on a calendar service that answers the delete call and keeps the event
DeleteOkKeeps(p) ==
    /\ req[p].pc = "delete"
    /\ LET r == req[p]
           hit == EventWithId(calendarId(Resolve(r.cuidadora)), r.eventIds[r.ndelete])
       IN /\ hit # {}
          /\ events' = events
          /\ req' = [req EXCEPT ![p] =
               IF r.ndelete < Len(r.eventIds)
               THEN [r EXCEPT !.ndelete = r.ndelete + 1]
               ELSE [r EXCEPT !.pc = "done", !.status = 200,
                              !.deleted = Len(r.eventIds)]]
    /\ UNCHANGED <<config, nextId>>

\* part_003:440-447 an events.delete call returns: the event is gone from the
\* caregiver's calendar; the loop goes on to the next id, or the handler answers
\* deleted: eventIds.length
DeleteOk(p) ==
    /\ req[p].pc = "delete"
    /\ LET r == req[p]
           hit == EventWithId(calendarId(Resolve(r.cuidadora)), r.eventIds[r.ndelete])
       IN /\ hit # {}
          /\ events' = events \ hit
          /\ req' = [req EXCEPT ![p] =
               IF r.ndelete < Len(r.eventIds)
               THEN [r EXCEPT !.ndelete = r.ndelete + 1,
                              !.removed = r.removed + Cardinality(hit)]
               ELSE [r EXCEPT !.pc = "done", !.status = 200,
                              !.removed = r.removed + Cardinality(hit),
                              !.deleted = Len(r.eventIds)]]
    /\ UNCHANGED <<config, nextId>>

\* part_003:448-451 an events.delete call throws (no event with the id in the
\* calendar, or one deleted already, or the call itself fails): 500; the events
\* deleted before stay deleted
DeleteFail(p) ==
    /\ req[p].pc = "delete"
    /\ \E e \in UpstreamErrors : Fail(p, e)
    /\ UNCHANGED <<config, events, nextId>>

(***************************************************************************)
(* Cancellation by token, second server of part_004.  A reservation puts   *)
(* the line `CancelToken: ${token}` in the description of each of its      *)
(* events, token being a fresh uuidv4() of the request: the token of the   *)
(* events of request p is p.  The handlers of this server take their       *)
(* client with `const { calendar } = getCalendarClient()`.  The            *)
(* getCalendarClient of src/calendar.js returns the client itself, which   *)
(* has no member `calendar`: the first `calendar.events` then throws a     *)
(* TypeError inside the try block and the catch block answers 500.  That   *)
(* outcome is the one of a first list call that throws (ListFail,          *)
(* TokenListFail); the other steps are those of the handlers with a        *)
(* getCalendarClient that returns { calendar, TZ } as they expect.         *)
(***************************************************************************)
\* the token in the description of an event, 0 when it has none
TokenOf(ev) == ev.by

\* part_004:456 Object.values(caregivers).map(c => c.calendarId)
AllCalendarIds == <<calendarId("Raquel"), calendarId("Carmen")>>

\* data.items of the list call as a sequence: by id
RECURSIVE ItemsOf(_)
ItemsOf(evs) ==
    IF evs = {} THEN <<>>
    ELSE LET first == CHOOSE ev \in evs : \A other \in evs : ev.id <= other.id
         IN <<first>> \o ItemsOf(evs \ {first})

\* part_004:464-469 events.list({calendarId, q: token, ...}): the events of
\* the calendar whose text holds the token
TokenEvents(cal, tok) ==
    {ev \in events : ev.cal = cal /\ TokenOf(ev) # 0 /\ TokenOf(ev) = tok}

\* GET /api/cancel/:token arrives: everything up to the first
\* `await calendar.events.list`
StartCancelToken(p, tok) ==
    /\ req[p].pc = "idle"
    /\ \A q \in Reqs : q < p => req[q].pc # "idle"
    /\ req' = [req EXCEPT ![p] =
           [IdleReq EXCEPT !.kind = "cancel", !.token = tok, !.pc = "tlist",
                           !.cals = AllCalendarIds, !.nlist = 1]]
    /\ UNCHANGED <<config, events, nextId>>

\* part_004:458-481 where the handler goes after a step that left `rest` to
\* delete in the current calendar: the next delete call, the list call of the
\* next calendar, or the response: 404 when deleted is 0, else the success page
TokenNext(r, rest) ==
    IF rest # <<>>
    THEN [r EXCEPT !.pc = "tdelete", !.todo = rest, !.ndelete = r.ndelete + 1]
    ELSE IF Tail(r.cals) # <<>>
    THEN [r EXCEPT !.pc = "tlist", !.todo = <<>>, !.cals = Tail(r.cals),
                   !.nlist = r.nlist + 1]
    ELSE [r EXCEPT !.pc = "done", !.todo = <<>>, !.cals = <<>>,
                   !.status = IF r.deleted = 0 THEN 404 ELSE 200,
                   !.error = IF r.deleted = 0 THEN "no_encontrada" ELSE ""]

\* part_004:464-471 the list call of one calendar returns
TokenListOk(p) ==
    /\ req[p].pc = "tlist"
    /\ LET r == req[p]
           items == ItemsOf(TokenEvents(Head(r.cals), r.token))
       IN req' = [req EXCEPT ![p] = TokenNext(r, items)]
    /\ UNCHANGED <<config, events, nextId>>

\* part_004:484-487 the list call throws: 500; what was deleted stays deleted
TokenListFail(p) ==
    /\ req[p].pc = "tlist"
    /\ \E e \in UpstreamErrors : Fail(p, e)
    /\ UNCHANGED <<config, events, nextId>>

\* part_004:471 try { await calendar.events.delete(...); deleted++ }: the call
\* returns, the event is gone
TokenDeleteOk(p) ==
    /\ req[p].pc = "tdelete"
    /\ LET r == req[p]
           hit == EventWithId(Head(r.todo).cal, Head(r.todo).id)
       IN /\ hit # {}
          /\ events' = events \ hit
          /\ req' = [req EXCEPT ![p] =
                 TokenNext([r EXCEPT !.deleted = r.deleted + 1,
                                     !.removed = r.removed + Cardinality(hit)],
                           Tail(r.todo))]
    /\ UNCHANGED <<config, nextId>>

\* part_004:471 catch(_){}: the delete call throws, the event stays, the loop
\* goes on without counting it
TokenDeleteFail(p) ==
    /\ req[p].pc = "tdelete"
    /\ req' = [req EXCEPT ![p] = TokenNext(req[p], Tail(req[p].todo))]
    /\ UNCHANGED <<config, events, nextId>>

(***************************************************************************)
(* Configurations and inputs explored.                                     *)
(***************************************************************************)
Variants == {"cjs", "esm", "p000", "p002", "p003a", "p003b", "p004a"}

\* UTC offsets of the server process: west of UTC, UTC, Madrid, east of Madrid
SrvOffsets == {-5, 0, 1, 2, 9}

\* Europe/Madrid: CET and CEST
MadridOffsets == {1, 2}

\* <<srvOff, madOff>> of the booking flows: a server on UTC in winter, a
\* server on Madrid time in summer, a server west of UTC in summer
BookZones == {<<0, 1>>, <<2, 2>>, <<-5, 2>>}

\* the first "today" explored, a Monday
Today0 == 7 + 1

\* the date the booking flows are about: the Monday a week after Today0
TargetDay == Today0 + 7

\* src/server.js:17 the default LEAD_WORKDAYS of the CommonJS variant
DefaultLead == 5

\* an event made by hand in Raquel's calendar, from hour h1 of day d1 to hour
\* h2 of day d2, Madrid time
Foreign(d1, h1, d2, h2) ==
    [id |-> 0, cal |-> "calRaquel", s |-> InstantMadrid(d1, h1 * MinPerHour),
     e |-> InstantMadrid(d2, h2 * MinPerHour), range |-> NoRange,
     cuidadora |-> "", by |-> 0]

\* the same from minute m1 of day d1 to minute m2 of day d2
ForeignMin(d1, m1, d2, m2) ==
    [id |-> 0, cal |-> "calRaquel", s |-> InstantMadrid(d1, m1),
     e |-> InstantMadrid(d2, m2), range |-> NoRange, cuidadora |-> "", by |-> 0]

\* calendars as a behaviour may find them: empty, or holding one event made by
\* hand: exactly 09:00-10:00, 09:00-11:00, from 22:00 the day before to
\* 08:00 the day after, 09:30-10:30, or from 09:45 the day before to 09:15
InitialCalendars ==
    {{}, {Foreign(TargetDay, 9, TargetDay, 10)},
         {Foreign(TargetDay, 9, TargetDay, 11)},
         {Foreign(TargetDay - 1, 22, TargetDay + 1, 8)},
         {ForeignMin(TargetDay, 9 * MinPerHour + 30, TargetDay, 10 * MinPerHour + 30)},
         {ForeignMin(TargetDay - 1, 9 * MinPerHour + 45, TargetDay, 9 * MinPerHour + 15)}}

\* ORG_CALENDARS only exists in part_000 and part_003's first server; the
\* list may name another caregiver's calendar
OrgChoices ==
    IF variant \in {"p000", "p003a"} THEN {<<>>, <<"calCarmen">>} ELSE {<<>>}

MailChoices ==
    IF variant \in {"cjs", "esm", "p001", "p003a"} THEN BOOLEAN ELSE {FALSE}

BookHoras ==
    {<<HourRange(9)>>, <<HourRange(10)>>, <<HourRange(9), HourRange(10)>>,
     <<HourRange(10), HourRange(9)>>}

\* the steps of a request after its start
Step(p) ==
    \/ ListOk(p)
    \/ ListFail(p)
    \/ InsertOk(p)
    \/ InsertFail(p)
    \/ MailDone(p)
    \/ MailFail(p)

\* the same on a server without mail transport
StepCal(p) ==
    \/ ListOk(p)
    \/ ListFail(p)
    \/ InsertOk(p)
    \/ InsertFail(p)

(***************************************************************************)
(* Spec: the booking flows.  NReq concurrent requests for TargetDay, on    *)
(* calendars that start empty.                                             *)
(***************************************************************************)
Init ==
    /\ variant \in Variants
    /\ \E z \in BookZones : srvOff = z[1] /\ madOff = z[2]
    /\ LEAD_WORKDAYS = DefaultLead
    /\ ORG_CALENDARS \in OrgChoices
    /\ mailer \in MailChoices
    /\ RATE = DefaultRate
    /\ IVA = DefaultIva
    /\ now = DateUTC(Today0, 12)
    /\ events = {}
    /\ nextId = 1
    /\ req = [p \in Reqs |-> IdleReq]

Next ==
    \/ \E p \in Reqs, c \in Caregivers : StartSlots(p, c, TargetDay)
    \/ \E p \in Reqs, c \in Caregivers, h \in BookHoras :
          StartReserve(p, c, TargetDay, h, TRUE)
    \/ \E p \in Reqs : Step(p)

Spec == Init /\ [][Next]_vars

(***************************************************************************)
(* SpecOcc: occupancy.  One request at a time against a calendar that      *)
(* holds an event made by hand, in every pairing of the zones.             *)
(***************************************************************************)
InitOcc ==
    /\ variant \in Variants
    /\ srvOff \in {-5, 0, 2}
    /\ madOff \in MadridOffsets
    /\ LEAD_WORKDAYS = 0
    /\ ORG_CALENDARS = <<>>
    /\ mailer = FALSE
    /\ RATE = DefaultRate
    /\ IVA = DefaultIva
    /\ now = DateUTC(Today0, 12)
    /\ events \in InitialCalendars
    /\ nextId = 1
    /\ req = [p \in Reqs |-> IdleReq]

NextOcc ==
    \/ \E p \in Reqs : StartSlots(p, "Raquel", TargetDay)
    \/ \E p \in Reqs, h \in BookHoras : StartReserve(p, "Raquel", TargetDay, h, TRUE)
    \/ \E p \in Reqs : (\A q \in Reqs \ {p} : req[q].pc \in {"idle", "done"}) /\ StepCal(p)

SpecOcc == InitOcc /\ [][NextOcc]_vars

(***************************************************************************)
(* SpecDate: the date policy.  One request, for any date around today, at  *)
(* any day of the week and time of day, server zone and LEAD_WORKDAYS.     *)
(***************************************************************************)
\* times of day of `now` (UTC, minutes): just after midnight, noon, just before midnight
TimesOfDay == {30, 12 * MinPerHour, 23 * MinPerHour + 30}

Dates == (Today0 - 1)..(Today0 + DateSpan)

\* LEAD_WORKDAYS is read by every generation but part_002 and part_003's second server
LeadChoices == IF variant \in {"p002", "p003b", "p004a"} THEN {0} ELSE 0..MaxLead

InitDate ==
    /\ variant \in Variants
    /\ srvOff \in SrvOffsets
    /\ madOff = 1
    /\ LEAD_WORKDAYS \in LeadChoices
    /\ ORG_CALENDARS = <<>>
    /\ mailer = FALSE
    /\ RATE = DefaultRate
    /\ IVA = DefaultIva
    /\ now \in {DateUTC(d, 0) + m : d \in Today0..(Today0 + 6), m \in TimesOfDay}
    /\ events = {}
    /\ nextId = 1
    /\ req = [p \in Reqs |-> IdleReq]

NextDate ==
    \/ \E f \in Dates : StartSlots(1, "Raquel", f)
    \/ \E f \in Dates : StartReserve(1, "Raquel", f, <<HourRange(9)>>, TRUE)
    \/ StepCal(1)

SpecDate == InitDate /\ [][NextDate]_vars

(***************************************************************************)
(* SpecSeq: names and prices.  One request on an empty calendar, the       *)
(* caregiver named in any spelling, up to MaxHoras hours, any RATE and IVA.*)
(***************************************************************************)
\* "Ra'quel" stands for the accented spelling of Raquel; "Nadie" is nobody's name
Names == {"Raquel", "raquel", "RAQUEL", "Ra'quel", "Carmen", "Nadie"}

\* the first k ranges of the catalog, k up to MaxHoras
PriceHoras == {SubSeq(getRanges, 1, k) : k \in 1..MaxHoras}

Rates == {1, DefaultRate, 25}
IvaChoices == {0, DefaultIva, 21}

InitSeq ==
    /\ variant \in Variants
    /\ srvOff = 2
    /\ madOff = 2
    /\ LEAD_WORKDAYS = 0
    /\ ORG_CALENDARS = <<>>
    /\ mailer \in MailChoices
    /\ RATE \in Rates
    /\ IVA \in IvaChoices
    /\ now = DateUTC(Today0, 12)
    /\ events = {}
    /\ nextId = 1
    /\ req = [p \in Reqs |-> IdleReq]

NextSeq ==
    \/ \E c \in Names : StartSlots(1, c, TargetDay)
    \/ \E c \in Names, h \in PriceHoras : StartReserve(1, c, TargetDay, h, TRUE)
    \/ Step(1)

SpecSeq == InitSeq /\ [][NextSeq]_vars

(***************************************************************************)
(* SpecHang: calls that never complete.  The requests of SpecSeq to the    *)
(* two variants of src/server.js, with a calendar call that may stay       *)
(* pending for ever.  The handlers put no                                  *)
(* timeout on `await calendar.events.list` and `await                      *)
(* calendar.events.insert`, so no step leaves a request whose call hangs.  *)
(* Fairness: a call that has not hung completes (it returns or throws),    *)
(* and the event loop then runs the rest of the handler.                   *)
(***************************************************************************)
\* the events.list or events.insert call request p awaits never completes
Hang(p) ==
    /\ req[p].pc \in {"list", "insert"}
    /\ req' = [req EXCEPT ![p].pc = "hung"]
    /\ UNCHANGED <<config, events, nextId>>

InitHang ==
    /\ variant \in {"cjs", "esm"}
    /\ srvOff = 2
    /\ madOff = 2
    /\ LEAD_WORKDAYS = 0
    /\ ORG_CALENDARS = <<>>
    /\ mailer \in MailChoices
    /\ RATE = DefaultRate
    /\ IVA = DefaultIva
    /\ now = DateUTC(Today0, 12)
    /\ events = {}
    /\ nextId = 1
    /\ req = [p \in Reqs |-> IdleReq]

NextHang ==
    \/ NextSeq
    \/ Hang(1)

SpecHang == InitHang /\ [][NextHang]_vars /\ WF_vars(Step(1))

(***************************************************************************)
(* SpecVal: validation and failures.  Requests one at a time, with bodies  *)
(* that may lack fields, name nobody, carry a date that is none or is      *)
(* closed, or ask for a range outside the catalog; calendar and mail calls *)
(* that may fail; the health check.  Every generation of the server.       *)
(***************************************************************************)
AllVariants == Variants \cup {"p001"}

\* a Saturday and a day inside the default lead time
ClosedDay == TargetDay + 5
SoonDay == Today0 + 1

ValNames == {"Raquel", "Nadie"}
\* the date that reads YYYY-MM-DD and is none goes to the generations that
\* build their Dates and their timeMin from the string as it is
ValDates ==
    {TargetDay, ClosedDay, SoonDay, BadFecha}
        \cup (IF variant \in {"cjs", "esm", "p001", "p002"} THEN {NoDateFecha} ELSE {})

\* 07:00-08:00 is in no catalog and overlaps no catalog range
OffCatalog == HourRange(7)
ValHoras == {<<>>, <<HourRange(9)>>, <<OffCatalog>>, <<HourRange(9), HourRange(10)>>}

ValLeads == {l \in {0, DefaultLead} : l \in LeadChoices}

InitVal ==
    /\ variant \in AllVariants
    /\ srvOff = 2
    /\ madOff = 2
    /\ LEAD_WORKDAYS \in ValLeads
    /\ ORG_CALENDARS = <<>>
    /\ mailer \in MailChoices
    /\ RATE = DefaultRate
    /\ IVA = DefaultIva
    /\ now = DateUTC(Today0, 12)
    /\ events = {}
    /\ nextId = 1
    /\ req = [p \in Reqs |-> IdleReq]

\* no other request is between its arrival and its response
Alone(p) == \A q \in Reqs \ {p} : req[q].pc \in {"idle", "done"}

NextVal ==
    \/ \E p \in Reqs, c \in ValNames, f \in ValDates : Alone(p) /\ StartSlots(p, c, f)
    \/ \E p \in Reqs, c \in ValNames, f \in ValDates, h \in ValHoras, ok \in BOOLEAN :
          Alone(p) /\ StartReserve(p, c, f, h, ok)
    \/ \E p \in Reqs : Alone(p) /\ StartHealth(p)
    \/ \E p \in Reqs : Step(p)
    \/ \E p \in Reqs : HealthOk(p)
    \/ \E p \in Reqs : HealthFail(p)

SpecVal == InitVal /\ [][NextVal]_vars

(***************************************************************************)
(* SpecMerge: the merge of contiguous hours.  One reservation to part_002  *)
(* on an empty calendar, for every list of up to MaxMerge catalog ranges,  *)
(* in any order, repeated entries included.                                *)
(***************************************************************************)
\* every list of 1..MaxMerge ranges of part_002's catalog
MergeInputs == UNION {[1..n -> SeqToSet(getRanges)] : n \in 1..MaxMerge}

InitMerge ==
    /\ variant = "p002"
    /\ \E z \in BookZones : srvOff = z[1] /\ madOff = z[2]
    /\ LEAD_WORKDAYS = 0
    /\ ORG_CALENDARS = <<>>
    /\ mailer = FALSE
    /\ RATE = DefaultRate
    /\ IVA = DefaultIva
    /\ now = DateUTC(Today0, 12)
    /\ events = {}
    /\ nextId = 1
    /\ req = [p \in Reqs |-> IdleReq]

NextMerge ==
    \/ \E h \in MergeInputs : StartReserve(1, "Raquel", TargetDay, h, TRUE)
    \/ StepCal(1)

SpecMerge == InitMerge /\ [][NextMerge]_vars

(***************************************************************************)
(* SpecCancel: reservation and cancellation.  The second server of         *)
(* part_003, requests one at a time: reservations, cancellations that name *)
(* the ids a reservation returned or other ids, and slots queries, on a    *)
(* calendar that may hold an event made by hand.                           *)
(***************************************************************************)
\* a reservation, its cancellation and the query that follows
CancelReqs == 1..(NReq + 1)

\* the event ids a client may send: those an ok reservation returned, none,
\* the first id alone, an id twice, the id of the event made by hand
CancelIds ==
    {req[p].created : p \in {q \in CancelReqs : /\ req[q].kind = "reserve"
                                                 /\ req[q].pc = "done"
                                                 /\ req[q].status = 200}}
        \cup {<<>>, <<0>>, <<1>>, <<1, 1>>}

\* the calendar starts empty or with an event made by hand, 17:00-19:00 in Madrid
CancelCalendars == {{}, {Foreign(TargetDay, 17, TargetDay, 19)}}

CancelHoras == {<<HourRange(9)>>, <<HourRange(9), HourRange(10)>>}

InitCancel ==
    /\ variant = "p003b"
    /\ \E z \in BookZones : srvOff = z[1] /\ madOff = z[2]
    /\ LEAD_WORKDAYS = 0
    /\ ORG_CALENDARS = <<>>
    /\ mailer = FALSE
    /\ RATE = DefaultRate
    /\ IVA = DefaultIva
    /\ now = DateUTC(Today0, 12)
    /\ events \in CancelCalendars
    /\ nextId = 1
    /\ req = [p \in CancelReqs |-> IdleReq]

NextCancel ==
    \/ \E p \in CancelReqs : Alone(p) /\ StartSlots(p, "Raquel", TargetDay)
    \/ \E p \in CancelReqs, h \in CancelHoras :
          Alone(p) /\ StartReserve(p, "Raquel", TargetDay, h, TRUE)
    \/ \E p \in CancelReqs, c \in Caregivers, ids \in CancelIds :
          Alone(p) /\ StartCancel(p, c, ids)
    \/ \E p \in CancelReqs : StepCal(p)
    \/ \E p \in CancelReqs : DeleteOk(p)
    \/ \E p \in CancelReqs : DeleteFail(p)

SpecCancel == InitCancel /\ [][NextCancel]_vars

(***************************************************************************)
(* SpecToken: cancellation by token.  The second server of part_004,       *)
(* requests one at a time: reservations and cancellations by the token of  *)
(* a reservation answered ok or by a token of no reservation, on a         *)
(* calendar that may hold an event made by hand.                           *)
(***************************************************************************)
\* the tokens a client may send: the one of an ok reservation (its cancel_url),
\* or one that no reservation has
Tokens ==
    {q \in CancelReqs : req[q].kind = "reserve" /\ req[q].pc = "done"
                                                /\ req[q].status = 200}
        \cup {NReq + 2}

InitToken ==
    /\ variant = "p004b"
    /\ \E z \in BookZones : srvOff = z[1] /\ madOff = z[2]
    /\ LEAD_WORKDAYS = 0
    /\ ORG_CALENDARS = <<>>
    /\ mailer = FALSE
    /\ RATE = DefaultRate
    /\ IVA = DefaultIva
    /\ now = DateUTC(Today0, 12)
    /\ events \in CancelCalendars
    /\ nextId = 1
    /\ req = [p \in CancelReqs |-> IdleReq]

NextToken ==
    \/ \E p \in CancelReqs, c \in Caregivers, h \in CancelHoras :
          Alone(p) /\ StartReserve(p, c, TargetDay, h, TRUE)
    \/ \E p \in CancelReqs, tok \in Tokens : Alone(p) /\ StartCancelToken(p, tok)
    \/ \E p \in CancelReqs : StepCal(p)
    \/ \E p \in CancelReqs : TokenListOk(p)
    \/ \E p \in CancelReqs : TokenListFail(p)
    \/ \E p \in CancelReqs : TokenDeleteOk(p)
    \/ \E p \in CancelReqs : TokenDeleteFail(p)

SpecToken == InitToken /\ [][NextToken]_vars

(***************************************************************************)
(* SpecTwice: a list of hours that names an hour twice.  Reservations to   *)
(* the two variants of src/server.js, one at a time on an empty calendar,  *)
(* whose `horas` may repeat a range or hold two ranges that overlap.       *)
(***************************************************************************)
\* one range, two apart, the same twice, and 09:00-11:00 with 10:00-11:00
TwiceHoras ==
    {<<HourRange(9)>>, <<HourRange(9), HourRange(10)>>,
     <<HourRange(9), HourRange(9)>>, <<Block(9, 11), HourRange(10)>>}

InitTwice ==
    /\ variant \in {"cjs", "esm"}
    /\ \E z \in BookZones : srvOff = z[1] /\ madOff = z[2]
    /\ LEAD_WORKDAYS = DefaultLead
    /\ ORG_CALENDARS = <<>>
    /\ mailer \in MailChoices
    /\ RATE = DefaultRate
    /\ IVA = DefaultIva
    /\ now = DateUTC(Today0, 12)
    /\ events = {}
    /\ nextId = 1
    /\ req = [p \in Reqs |-> IdleReq]

NextTwice ==
    \/ \E p \in Reqs, h \in TwiceHoras :
          Alone(p) /\ StartReserve(p, "Raquel", TargetDay, h, TRUE)
    \/ \E p \in Reqs : Step(p)

SpecTwice == InitTwice /\ [][NextTwice]_vars

(***************************************************************************)
(* Properties.                                                             *)
(***************************************************************************)
\* the events a request inserted that are in the calendars
EventsBy(p) == {ev \in events : ev.by = p}

\* the requested ranges the conflict check of request p found occupied
Occupied(p) ==
    {r \in SeqToSet(req[p].horas) : Taken(req[p].snap, req[p].fecha, r)}

ServerJs == {"cjs", "esm"}

IsReserve(p) == req[p].kind = "reserve"
IsSlots(p) == req[p].kind = "slots"
Done(p) == req[p].pc = "done"
RespondedOk(p) == Done(p) /\ req[p].status = 200

\* C1: in both variants of src/server.js, a reservation whose conflict check
\* finds a requested range occupied is answered 409 with exactly the occupied
\* requested ranges in `slots`, and makes no insert call; and only such a
\* reservation is answered 409.
C1_ConflictAborts ==
    \A p \in Reqs :
        (variant \in ServerJs /\ IsReserve(p) /\ req[p].listed) =>
            IF Occupied(p) # {}
            THEN /\ Done(p)
                 /\ req[p].status = 409
                 /\ SeqToSet(req[p].slots) = Occupied(p)
                 /\ req[p].slots = FilterSeq(req[p].horas, Occupied(p))
                 /\ req[p].created = <<>>
                 /\ req[p].todo = <<>>
                 /\ EventsBy(p) = {}
            ELSE req[p].status # 409

\* a reservation of two ranges, one occupied and one free, answered 409 with
\* the occupied one only
C1_Witness ==
    \E p \in Reqs :
        /\ variant \in ServerJs /\ IsReserve(p) /\ Done(p)
        /\ req[p].status = 409
        /\ Len(req[p].horas) = 2
        /\ Len(req[p].slots) = 1
        /\ EventsBy(p) = {}

C3_NoPartialReservation ==
    \A p \in Reqs :
        (variant \in ServerJs /\ IsReserve(p) /\ Done(p) /\ req[p].status = 500) =>
            EventsBy(p) = {}

\* the event of request p for its requested range r, in the caregiver's calendar
IsEventFor(ev, p, r) ==
    LET key == Resolve(req[p].cuidadora)
        t == EventFor(calendarId(key), key, req[p].fecha, r)
    IN ev.by = p /\ ev.cal = t.cal /\ ev.s = t.s /\ ev.e = t.e

SameTarget(p, q) ==
    /\ Resolve(req[p].cuidadora) = Resolve(req[q].cuidadora)
    /\ req[p].fecha = req[q].fecha

\* the events request p listed leave its requested ranges free (Madrid time)
FreeInSnap(p) ==
    \A r \in SeqToSet(req[p].horas), ev \in req[p].snap :
        ~(ev.s < InstantMadrid(req[p].fecha, r[2]) /\ InstantMadrid(req[p].fecha, r[1]) < ev.e)

\* C4: two reservations of src/server.js for the same caregiver, date and
\* ranges whose list calls both returned before either inserted (each listed a
\* calendar where the requested ranges were free) both pass the conflict
\* check; when both then respond ok, the calendar holds, for each requested
\* range, one event of each request.
C4_BothPassWhenBothReadFirst ==
    \A p, q \in Reqs :
        ( /\ p # q /\ variant \in ServerJs
          /\ IsReserve(p) /\ IsReserve(q)
          /\ SameTarget(p, q) /\ req[p].horas = req[q].horas
          /\ req[p].listed /\ req[q].listed
          /\ FreeInSnap(p) /\ FreeInSnap(q) ) =>
            /\ req[p].status # 409
            /\ req[q].status # 409
            /\ (RespondedOk(p) /\ RespondedOk(q)) =>
                 \A r \in SeqToSet(req[p].horas) :
                    \E e1, e2 \in events :
                        /\ e1 # e2
                        /\ IsEventFor(e1, p, r)
                        /\ IsEventFor(e2, q, r)
                        /\ e1.cal = e2.cal /\ e1.s = e2.s /\ e1.e = e2.e

\* both requests answered ok and the same range of the same day is booked twice
C4_Witness ==
    \E p, q \in Reqs :
        /\ p # q /\ variant \in ServerJs
        /\ IsReserve(p) /\ IsReserve(q)
        /\ SameTarget(p, q) /\ req[p].horas = req[q].horas
        /\ req[p].snap = {} /\ req[q].snap = {}
        /\ RespondedOk(p) /\ RespondedOk(q)
        /\ \E e1, e2 \in events :
              /\ e1.by = p /\ e2.by = q
              /\ e1.cal = e2.cal /\ e1.s = e2.s /\ e1.e = e2.e

\* C5 as stated: in each variant of src/server.js, once a reservation p of one
\* range r has succeeded and the day's calendar holds its event and nothing
\* else, (a) a GET /api/slots marks r taken and no other range, and (b) a
\* second reservation of r is answered 409 naming r and creates nothing.
C5_ReservedRangeIsSeen ==
    \A p, q \in Reqs :
        ( /\ p # q /\ variant \in ServerJs
          /\ IsReserve(p) /\ RespondedOk(p) /\ Len(req[p].horas) = 1
          /\ SameTarget(p, q)
          /\ req[q].listed /\ req[q].snap = EventsBy(p) ) =>
            LET r == req[p].horas[1] IN
            /\ IsSlots(q) =>
                 \A i \in 1..Len(req[q].slots) :
                    req[q].slots[i].taken <=> (req[q].slots[i].range = r)
            /\ (IsReserve(q) /\ req[q].horas = <<r>>) =>
                 /\ Done(q) /\ req[q].status = 409
                 /\ req[q].slots = <<r>>
                 /\ EventsBy(q) = {}

\* C5 for the CommonJS variant alone
C5_CjsOnly ==
    variant = "cjs" => C5_ReservedRangeIsSeen

\* an event covers requested range r of day fecha (Madrid time)
Covers(ev, fecha, r) ==
    ev.s <= InstantMadrid(fecha, r[1]) /\ InstantMadrid(fecha, r[2]) <= ev.e

\* the requested ranges of request p that an event it listed covers
Covered(p) ==
    {r \in SeqToSet(req[p].horas) :
        \E ev \in req[p].snap : Covers(ev, req[p].fecha, r)}

\* C6 as stated: in both variants of src/server.js a reservation that requests
\* a range fully covered by an existing event is answered 409, the conflict
\* names the covered ranges, and it creates nothing.
C6_CoveredRangeConflicts ==
    \A p \in Reqs :
        (variant \in ServerJs /\ IsReserve(p) /\ req[p].listed /\ Covered(p) # {}) =>
            /\ Done(p) /\ req[p].status = 409
            /\ Covered(p) \subseteq SeqToSet(req[p].slots)
            /\ EventsBy(p) = {}

\* the error each generation answers when its weekend gate turns a date away
WeekendError ==
    IF variant = "cjs" THEN "solo_lunes_viernes" ELSE "fecha_no_disponible"

\* the error each generation answers when its lead gate turns a date away
LeadError ==
    IF variant = "cjs" THEN "lead_minimo" ELSE "antes_de_lead"

\* C7 as stated: in src/server.js, part_000 and part_002, whatever the UTC
\* offset of the server, a reservation for a date that is a Saturday or a
\* Sunday never reaches an insert call, and a reservation for a Monday-Friday
\* date is not answered with the weekend error.
C7_WeekendNeverBooked ==
    \A p \in Reqs :
        (variant \in {"cjs", "esm", "p000", "p002"} /\ IsReserve(p)) =>
            IF CivilWeekend(req[p].fecha)
            THEN /\ req[p].pc # "insert"
                 /\ req[p].created = <<>>
                 /\ EventsBy(p) = {}
            ELSE req[p].error # WeekendError

\* C7 for src/server.js alone
C7_ServerJsOnly ==
    variant \in ServerJs => C7_WeekendNeverBooked

\* the number of Monday-Friday days after day a, up to and including day b
WorkdaysAfter(a, b) == Cardinality({d \in (a + 1)..b : ~CivilWeekend(d)})

\* the day reached by walking forward from today, one calendar day at a time,
\* until n Monday-Friday days have been counted: the first day with n such
\* days behind it (today itself when n = 0)
EarliestDay(today, n) ==
    CHOOSE d \in today..(today + 2 * n + 2) :
        /\ WorkdaysAfter(today, d) = n
        /\ \A d2 \in today..(d - 1) : WorkdaysAfter(today, d2) < n

\* C8 as stated: in both variants of src/server.js, for every LEAD_WORKDAYS
\* and every current day, a reservation for a date before the earliest
\* bookable day (the server's today advanced by LEAD_WORKDAYS working days) is
\* answered with the lead-time error and creates nothing, and one for a date
\* on or after that day is not answered with the lead-time error.
C8_LeadRule ==
    \A p \in Reqs :
        (variant \in ServerJs /\ IsReserve(p)) =>
            IF req[p].fecha < EarliestDay(getDate(now), LEAD_WORKDAYS)
            THEN /\ Done(p) /\ req[p].status = 400
                 /\ req[p].error = LeadError
                 /\ req[p].created = <<>> /\ EventsBy(p) = {}
            ELSE req[p].error # LeadError

\* C8 amended: a reservation for a date before the earliest bookable day is
\* answered 400 and creates nothing; the error is the lead-time error when the
\* date is a Monday-Friday date and the weekend error when it is a Saturday or
\* a Sunday (the weekend gate comes first); a reservation for a date on or
\* after the earliest bookable day is not answered with the lead-time error.
C8_LeadRuleAmended ==
    \A p \in Reqs :
        (variant \in ServerJs /\ IsReserve(p)) =>
            IF req[p].fecha < EarliestDay(getDate(now), LEAD_WORKDAYS)
            THEN /\ Done(p) /\ req[p].status = 400
                 /\ req[p].error =
                        (IF CivilWeekend(req[p].fecha) THEN WeekendError ELSE LeadError)
                 /\ req[p].created = <<>> /\ EventsBy(p) = {}
            ELSE req[p].error # LeadError

\* the last Monday-Friday date before the earliest bookable day is turned away
\* with the lead-time error, LEAD_WORKDAYS being positive
C8_Witness ==
    \E p \in Reqs :
        /\ variant \in ServerJs /\ IsReserve(p) /\ Done(p)
        /\ LEAD_WORKDAYS > 0
        /\ ~CivilWeekend(req[p].fecha)
        /\ req[p].fecha > getDate(now)
        /\ req[p].fecha < EarliestDay(getDate(now), LEAD_WORKDAYS)
        /\ req[p].status = 400 /\ req[p].error = LeadError
        /\ EventsBy(p) = {}

\* C9: for every n up to MaxLead and every start instant, both addWorkdays of
\* src/server.js return an instant of the day reached by walking forward from
\* today counting Monday-Friday days up to n; with n = 5 from a Monday that is
\* the Monday 7 days later; for n > 0 it is a Monday-Friday day after today.
C9_AddWorkdays ==
    \A n \in 0..MaxLead :
        LET today == getDate(now)
            a == addWorkdays(now, n)
            b == addWorkdaysEsm(now, n)
        IN /\ getDate(a) = EarliestDay(today, n)
           /\ getDate(b) = EarliestDay(today, n)
           /\ n > 0 => /\ getDate(a) > today /\ getDay(a) \in 1..5
                       /\ getDate(b) > today /\ getDay(b) \in 1..5
           /\ (n = 5 /\ getDay(now) = 1) =>
                 /\ getDate(a) = today + 7 /\ getDay(a) = 1
                 /\ getDate(b) = today + 7 /\ getDay(b) = 1

\* on a Monday with LEAD_WORKDAYS = 5 the CommonJS handler lets the
\* reservation for the Monday 7 days later through its date gates
C9_Witness ==
    \E p \in Reqs :
        /\ variant = "cjs" /\ LEAD_WORKDAYS = 5 /\ getDay(now) = 1
        /\ IsReserve(p)
        /\ req[p].fecha = getDate(now) + 7
        /\ req[p].fecha = getDate(addWorkdays(now, LEAD_WORKDAYS))
        /\ req[p].pc = "list"

\* the weekend gate of the handlers that read LEAD_WORKDAYS = 0 as "no lead"
WeekendGate(f) ==
    IF variant = "esm" THEN isWeekend(qDateEsm(f)) ELSE isWeekend(parseDateFlexible(f))

\* request p was turned away by the lead gate: the reservation with the
\* lead-time error, the slots query with the empty grid its lead gate answers
LeadRejected(p) ==
    \/ IsReserve(p) /\ req[p].error = LeadError
    \/ /\ IsSlots(p) /\ Done(p) /\ ~req[p].listed
       /\ req[p].status = 200 /\ req[p].slots = <<>>
       /\ ~WeekendGate(req[p].fecha)

\* C10 as stated: with LEAD_WORKDAYS = 0, in part_000 and in the ESM variant
\* of src/server.js, whatever the time of day and the UTC offset of the
\* server, a slots query or a reservation for the server's today, a
\* Monday-Friday day, is not turned away by the lead gate.
C10_SameDayAllowed ==
    \A p \in Reqs :
        ( /\ variant \in {"p000", "esm"} /\ LEAD_WORKDAYS = 0
          /\ req[p].pc # "idle"
          /\ req[p].fecha = getDate(now)
          /\ ~CivilWeekend(req[p].fecha) ) =>
            ~LeadRejected(p)

\* C10 for the ESM variant of src/server.js alone
C10_EsmOnly ==
    variant = "esm" => C10_SameDayAllowed

\* a grid with no bookable entry
NoFreeRange(grid) == \A i \in 1..Len(grid) : grid[i].taken

\* C11 as stated: in src/server.js (both variants) and part_002, a slots query
\* for a Saturday or a Sunday that is answered with a grid has no entry with
\* taken = false in it, whatever the server's zone.
C11_WeekendGridNotBookable ==
    \A p \in Reqs :
        ( /\ variant \in {"cjs", "esm", "p002"}
          /\ IsSlots(p) /\ Done(p) /\ req[p].status = 200
          /\ CivilWeekend(req[p].fecha) ) =>
            NoFreeRange(req[p].slots)

\* C11 for src/server.js alone
C11_ServerJsOnly ==
    variant \in ServerJs => C11_WeekendGridNotBookable

\* the errors with which the reservation handlers turn a date away
DatePolicyErrors ==
    {"solo_lunes_viernes", "lead_minimo", "weekend_not_allowed", "min_workdays_not_met"}

\* the server's reservation endpoint turns a reservation for date f away by
\* date policy, the request being complete and the caregiver known
ReserveRejectsDate(f) ==
    validateReserve("Raquel", f, <<HourRange(9)>>, TRUE).error \in DatePolicyErrors

\* C12 as stated: in the CommonJS variant of src/server.js and in the second
\* server of part_003, a slots query for a date that the same server's
\* reservation endpoint turns away by date policy is answered with an
\* all-taken or empty grid, without a list call.
C12_SlotsFollowDatePolicy ==
    \A p \in Reqs :
        ( /\ variant \in {"cjs", "p003b"}
          /\ IsSlots(p)
          /\ ReserveRejectsDate(req[p].fecha) ) =>
            /\ Done(p) /\ ~req[p].listed
            /\ req[p].status = 200
            /\ NoFreeRange(req[p].slots)

\* C12 for the CommonJS variant alone
C12_CjsOnly ==
    variant = "cjs" => C12_SlotsFollowDatePolicy

\* event ev covers exactly the i-th catalog range of day fecha, Madrid time
CoversExactly(ev, fecha, i) ==
    /\ ev.s = InstantMadrid(fecha, Catalog[i][1])
    /\ ev.e = InstantMadrid(fecha, Catalog[i][2])

\* C13 as stated: in both variants of src/server.js, a slots query that
\* passes the date policy and finds a single event, covering exactly one
\* catalog range in business time, marks that range taken and no other.
C13_ExactEventMarksOneRange ==
    \A p \in Reqs :
        (variant \in ServerJs /\ IsSlots(p) /\ req[p].listed) =>
            \A i \in 1..Len(Catalog) :
                (\E ev \in req[p].snap :
                    req[p].snap = {ev} /\ CoversExactly(ev, req[p].fecha, i)) =>
                        /\ Len(req[p].slots) = Len(Catalog)
                        /\ \A j \in 1..Len(Catalog) :
                              /\ req[p].slots[j].range = Catalog[j]
                              /\ req[p].slots[j].taken <=> (j = i)

\* C13 for the ESM variant, and for the CommonJS variant on a server whose
\* zone is Madrid's
C13_EsmOrMadridServer ==
    (variant = "esm" \/ srvOff = madOff) => C13_ExactEventMarksOneRange

\* event ev and range r of day fecha share some time (Madrid time)
Overlaps(ev, fecha, r) ==
    ev.s < InstantMadrid(fecha, r[2]) /\ InstantMadrid(fecha, r[1]) < ev.e

\* C14 as stated: in both variants of src/server.js, a slots query that
\* passes the date policy marks taken every catalog range that shares some
\* time with an event of the day.
C14_PartialOverlapMarksTaken ==
    \A p \in Reqs :
        (variant \in ServerJs /\ IsSlots(p) /\ req[p].listed) =>
            \A j \in 1..Len(Catalog) :
                (\E ev \in req[p].snap : Overlaps(ev, req[p].fecha, Catalog[j])) =>
                    /\ Len(req[p].slots) = Len(Catalog)
                    /\ req[p].slots[j].taken

\* C14 for the CommonJS variant on a server whose zone is Madrid's, the events
\* starting and ending within the day asked for
C14_CjsMadridSameDay ==
    \A p \in Reqs :
        ( /\ variant = "cjs" /\ srvOff = madOff
          /\ IsSlots(p) /\ req[p].listed
          /\ \A ev \in req[p].snap :
                /\ InstantMadrid(req[p].fecha, 0) <= ev.s
                /\ ev.e <= InstantMadrid(req[p].fecha, MinPerDay - 1) ) =>
            \A j \in 1..Len(Catalog) :
                (\E ev \in req[p].snap : Overlaps(ev, req[p].fecha, Catalog[j])) =>
                    req[p].slots[j].taken

\* the range the CommonJS handlers hand to overlap for event ev
EventRangeCjs(ev) ==
    IF ev.range # NoRange THEN ev.range
    ELSE <<getHours(ev.s) * MinPerHour + getMinutes(ev.s),
           getHours(ev.e) * MinPerHour + getMinutes(ev.e)>>

\* the strict half-open interval test
IntervalTest(A, B) == A[1] < B[2] /\ B[1] < A[2]

\* C15 as stated: for every pair of ranges that reaches overlap in the
\* CommonJS handlers of src/server.js (the range of a listed event against a
\* catalog range or a requested range), overlap(A, B) is the interval test
\* start_A < end_B and start_B < end_A, and overlap is symmetric.
C15_OverlapIsIntervalTest ==
    \A p \in Reqs :
        (variant = "cjs" /\ req[p].listed) =>
            \A ev \in req[p].snap :
                \A B \in SeqToSet(Catalog) \cup SeqToSet(req[p].horas) :
                    LET A == EventRangeCjs(ev)
                    IN /\ overlap(A, B) <=> IntervalTest(A, B)
                       /\ overlap(A, B) <=> overlap(B, A)

\* C15 for the ranges whose start is before their end; symmetry for all
C15_ProperRangesOnly ==
    \A p \in Reqs :
        (variant = "cjs" /\ req[p].listed) =>
            \A ev \in req[p].snap :
                \A B \in SeqToSet(Catalog) \cup SeqToSet(req[p].horas) :
                    LET A == EventRangeCjs(ev)
                    IN /\ (A[1] < A[2] /\ B[1] < B[2]) =>
                            (overlap(A, B) <=> IntervalTest(A, B))
                       /\ overlap(A, B) <=> overlap(B, A)

\* the grid of slots query g marks range r taken
GridTaken(g, r) ==
    \E i \in 1..Len(req[g].slots) :
        req[g].slots[i].range = r /\ req[g].slots[i].taken

\* reservation p was answered with a conflict that names range r
Reported(p, r) == req[p].status = 409 /\ r \in SeqToSet(req[p].slots)

\* slots query g and reservation p, for the same caregiver and date, listed
\* the same events
SameEvents(g, p) ==
    /\ IsSlots(g) /\ IsReserve(p)
    /\ req[g].listed /\ req[p].listed
    /\ SameTarget(g, p)
    /\ req[g].snap = req[p].snap

C17_EmptyDayAllFree ==
    \A p \in Reqs :
        (IsSlots(p) /\ req[p].listed /\ req[p].snap = {}) =>
            /\ Done(p) /\ req[p].status = 200
            /\ Len(req[p].slots) = Len(Catalog)
            /\ \A i \in 1..Len(Catalog) :
                  /\ req[p].slots[i].range = Catalog[i]
                  /\ ~req[p].slots[i].taken

\* a slots query of the CommonJS variant answered from an empty day
C17_Witness ==
    \E p \in Reqs :
        /\ variant = "cjs" /\ IsSlots(p) /\ Done(p)
        /\ req[p].listed /\ req[p].snap = {}
        /\ Len(req[p].slots) = Len(SLOT_RANGES)
        /\ \A i \in 1..Len(req[p].slots) : ~req[p].slots[i].taken

\* two answered slots queries of src/server.js for the same caregiver and date
\* whose list calls returned the same events carry the same grid
SameGridForSameCalendar ==
    \A p, q \in Reqs :
        ( /\ variant \in ServerJs
          /\ IsSlots(p) /\ IsSlots(q)
          /\ RespondedOk(p) /\ RespondedOk(q)
          /\ SameTarget(p, q)
          /\ req[p].snap = req[q].snap )
        => req[p].slots = req[q].slots

\* C18: GET /api/slots of src/server.js is idempotent.  No step of a slots
\* query changes the calendar, so a second query with no write in between
\* lists the same events as the first; and two queries for the same caregiver
\* and date that list the same events are answered with identical grids.
C18_SlotsIdempotent ==
    [][ /\ \A p \in Reqs :
             (variant \in ServerJs /\ req'[p].kind = "slots"
                 /\ req'[p].pc # req[p].pc) => events' = events
        /\ SameGridForSameCalendar' ]_vars

\* two slots queries of src/server.js answered one after the other from a
\* calendar that holds an event: same grid, some range taken, some free, and
\* the calendar still holds exactly what both listed
C18_Witness ==
    \E p, q \in Reqs :
        /\ p # q /\ variant \in ServerJs
        /\ IsSlots(p) /\ IsSlots(q) /\ RespondedOk(p) /\ RespondedOk(q)
        /\ req[p].listed /\ req[q].listed /\ SameTarget(p, q)
        /\ req[p].snap # {} /\ req[p].snap = req[q].snap
        /\ events = req[p].snap
        /\ req[p].slots = req[q].slots
        /\ \E i, j \in 1..Len(req[p].slots) :
              req[p].slots[i].taken /\ ~req[p].slots[j].taken

\* the servers whose price breakdown the claim is about: both variants of
\* src/server.js and the first server of part_004
PriceServers == {"cjs", "esm", "p004a"}

\* the hourly rate and the tax percentage such a server computes with
RateOf == IF variant = "p004a" THEN RATE004 ELSE RATE
PctOf == IF variant = "p004a" THEN IVA004 ELSE IVA

\* C19: a successful reservation of k ranges in src/server.js (both variants)
\* or part_004's /api/reservar answers a price with horas = k,
\* subtotal = rate * k, tax = subtotal * taxRate and
\* total = subtotal + tax = subtotal * (1 + taxRate), for every k >= 1
\* (amounts in ten-thousandths of a euro, the tax rate a whole percentage).
C19_PriceBreakdown ==
    \A p \in Reqs :
        (variant \in PriceServers /\ IsReserve(p) /\ RespondedOk(p)) =>
            LET k == Len(req[p].horas)
                pr == req[p].precio
            IN /\ k >= 1
               /\ pr.horas = k
               /\ pr.subtotal = RateOf * k * PerEuro
               /\ pr.iva * 100 = pr.subtotal * PctOf
               /\ pr.total = pr.subtotal + pr.iva
               /\ pr.total * 100 = pr.subtotal * (100 + PctOf)

\* a reservation of MaxHoras ranges answered ok by the CommonJS variant with a
\* rate and a tax other than the defaults, the tax not zero
C19_Witness ==
    \E p \in Reqs :
        /\ variant = "cjs" /\ IsReserve(p) /\ RespondedOk(p)
        /\ Len(req[p].horas) = MaxHoras
        /\ RATE # DefaultRate /\ IVA # DefaultIva /\ IVA > 0
        /\ req[p].precio.iva > 0
        /\ req[p].precio.total = req[p].precio.subtotal + req[p].precio.iva

\* the name matches a configured caregiver up to accents and case
NameKnown(c) == \E k \in Caregivers : normalize(k) = normalize(c)

\* the configured caregiver the name stands for
NameOf(c) == CHOOSE k \in Caregivers : normalize(k) = normalize(c)

\* the request was rejected because its caregiver is unknown
RejectedUnknown(p) ==
    /\ Done(p) /\ req[p].status = 400
    /\ req[p].error \in {"cuidadora_invalida", "cuidadora_desconocida"}

\* C20: in both variants of src/server.js the caregiver lookup of /api/slots
\* and /api/reserve is accent- and case-insensitive: a request whose name
\* matches a configured caregiver up to accents and case is not rejected as
\* unknown and every event it creates is in that caregiver's calendar; only a
\* name that matches none is rejected as unknown.
C20_LookupInsensitive ==
    \A p \in Reqs :
        (variant \in ServerJs /\ req[p].pc # "idle") =>
            IF NameKnown(req[p].cuidadora)
            THEN /\ ~RejectedUnknown(p)
                 /\ \A ev \in EventsBy(p) :
                       ev.cal = calendarId(NameOf(req[p].cuidadora))
            ELSE RejectedUnknown(p)

\* the same for the ESM variant alone, which looks the normalized name up
C20_EsmOnly ==
    \A p \in Reqs :
        (variant = "esm" /\ req[p].pc # "idle") =>
            IF NameKnown(req[p].cuidadora)
            THEN /\ ~RejectedUnknown(p)
                 /\ \A ev \in EventsBy(p) :
                       ev.cal = calendarId(NameOf(req[p].cuidadora))
            ELSE RejectedUnknown(p)

\* the body or query of request p is one validation has to turn away: a required
\* field missing or empty, a date that is none, or a caregiver nobody is
InvalidInput(p) ==
    \/ ~req[p].fieldsOk
    \/ req[p].horas = <<>>
    \/ InvalidDate(req[p].fecha)
    \/ ~NameKnown(req[p].cuidadora)

ClientError(p) == Done(p) /\ req[p].status >= 400 /\ req[p].status < 500

NoCalendarCall(p) ==
    /\ req[p].nlist = 0 /\ req[p].ninsert = 0
    /\ ~req[p].listed /\ EventsBy(p) = {}

\* C21 as stated: in src/server.js (both variants) and in part_002, every
\* reservation with a missing or empty required field, a malformed date or an
\* unknown caregiver is answered with a 4xx error, and no call to the external
\* calendar is made for it.
C21_InvalidInputNoCall ==
    \A p \in Reqs :
        ( /\ variant \in {"cjs", "esm", "p002"}
          /\ IsReserve(p) /\ req[p].pc # "idle" /\ InvalidInput(p) )
        => ClientError(p) /\ NoCalendarCall(p)

\* the same for the ESM variant of src/server.js alone
C21_EsmOnly ==
    variant = "esm" => C21_InvalidInputNoCall

\* the range is no range of the catalog and overlaps none
OutsideCatalog(r) ==
    /\ r \notin SeqToSet(Catalog)
    /\ \A c \in SeqToSet(Catalog) : ~(r[1] < c[2] /\ c[1] < r[2])

\* C22 as stated: POST /api/reserve of src/server.js checks that the requested
\* ranges are drawn from the catalog: a reservation whose `horas` holds a range
\* that is no catalog range and overlaps none is rejected with a validation
\* error and creates no event.
C22_OffCatalogRejected ==
    \A p \in Reqs :
        ( /\ variant \in ServerJs /\ IsReserve(p) /\ req[p].pc # "idle"
          /\ \E r \in SeqToSet(req[p].horas) : OutsideCatalog(r) )
        => ClientError(p) /\ EventsBy(p) = {}

\* the errors the reservation handlers of src/server.js answer for a caregiver
\* they do not know
UnknownCaregiverErrors == {"cuidadora_invalida", "cuidadora_desconocida"}

\* the date of request p is closed by the date policy: a Saturday or Sunday, or
\* a day before the earliest bookable one
ClosedByPolicy(p) ==
    /\ ~InvalidDate(req[p].fecha)
    /\ \/ CivilWeekend(req[p].fecha)
       \/ req[p].fecha < EarliestDay(getDate(now), LEAD_WORKDAYS)

\* C23 as stated: POST /api/reserve of src/server.js checks the required
\* fields, then the date policy, then the caregiver: a reservation with every
\* field present, a date the policy closes and a caregiver nobody is, is
\* rejected with the date-policy error, not with the unknown-caregiver error.
C23_DateBeforeCaregiver ==
    \A p \in Reqs :
        ( /\ variant \in ServerJs /\ IsReserve(p) /\ req[p].pc # "idle"
          /\ req[p].fieldsOk /\ req[p].horas # <<>>
          /\ ClosedByPolicy(p)
          /\ ~NameKnown(req[p].cuidadora) )
        => /\ ClientError(p)
           /\ req[p].error \in {WeekendError, LeadError}
           /\ req[p].error \notin UnknownCaregiverErrors

\* the order the handlers have: required fields, then the caregiver, then the
\* date; such a reservation is rejected as naming an unknown caregiver
C23_CaregiverBeforeDate ==
    \A p \in Reqs :
        ( /\ variant \in ServerJs /\ IsReserve(p) /\ req[p].pc # "idle"
          /\ req[p].fieldsOk /\ req[p].horas # <<>>
          /\ ~NameKnown(req[p].cuidadora) )
        => ClientError(p) /\ req[p].error \in UnknownCaregiverErrors

\* the query of request p names a configured caregiver and a date the date
\* policy leaves open
OpenQuery(p) ==
    /\ Resolve(req[p].cuidadora) # ""
    /\ ~InvalidDate(req[p].fecha)
    /\ ~CivilWeekend(req[p].fecha)
    /\ req[p].fecha >= EarliestDay(getDate(now), LEAD_WORKDAYS)

\* a slots query of src/server.js for a configured caregiver and an open date
\* has made one events.list call and no events.insert call, and no event in
\* the calendars is its own
OneReadNoWrite ==
    \A p \in Reqs :
        (variant \in ServerJs /\ IsSlots(p) /\ req[p].pc # "idle" /\ OpenQuery(p)) =>
            /\ req[p].nlist = 1
            /\ req[p].ninsert = 0
            /\ EventsBy(p) = {}

\* C24: a GET /api/slots of src/server.js for a known caregiver and a date
\* that passes the date policy makes exactly one events.list call and no
\* insert call; no step of the query changes the events of any calendar; and
\* what it answers from is what its own list call returns, the events the
\* calendar holds for that day at that moment, whatever earlier queries listed.
C24_SlotsReadOnce ==
    [][ /\ \A p \in Reqs :
             (variant \in ServerJs /\ req'[p].kind = "slots"
                 /\ req'[p].pc # req[p].pc) =>
                 /\ events' = events
                 /\ req'[p].listed =>
                       req'[p].snap =
                          DayEvents(calendarId(Resolve(req'[p].cuidadora)), req'[p].fecha)
        /\ OneReadNoWrite' ]_vars

\* a slots query of src/server.js answered after a reservation for the same
\* caregiver and day: one list call, no insert call, and the events it listed
\* include the reservation's, which the reservation's own list call had not
C24_Witness ==
    \E p, q \in Reqs :
        /\ variant \in ServerJs /\ IsSlots(p) /\ IsReserve(q)
        /\ OpenQuery(p) /\ SameTarget(p, q)
        /\ RespondedOk(p) /\ req[p].listed /\ RespondedOk(q)
        /\ req[p].nlist = 1 /\ req[p].ninsert = 0
        /\ EventsBy(q) # {} /\ EventsBy(q) \subseteq req[p].snap
        /\ req[q].snap # req[p].snap

\* the events.list call of request p was made and did not return: it threw
ListFailed(p) == req[p].nlist = 1 /\ ~req[p].listed /\ req[p].pc # "list"

\* C25: in src/server.js, when the events.list call fails, GET /api/slots
\* answers an error and no grid, and POST /api/reserve answers an error and
\* makes no insert call.
C25_ListFailureIsError ==
    \A p \in Reqs :
        (variant \in ServerJs /\ ListFailed(p)) =>
            /\ Done(p)
            /\ req[p].status = 500
            /\ req[p].error = "server_error"
            /\ req[p].slots = <<>>
            /\ req[p].ninsert = 0
            /\ EventsBy(p) = {}

\* a slots query and a reservation of src/server.js, both for a configured
\* caregiver and an open day, whose list calls failed
C25_Witness ==
    \E p, q \in Reqs :
        /\ variant \in ServerJs
        /\ IsSlots(p) /\ IsReserve(q)
        /\ OpenQuery(p) /\ OpenQuery(q)
        /\ ListFailed(p) /\ ListFailed(q)
        /\ req[p].status = 500 /\ req[q].status = 500

\* the servers whose confirmation mail the claim is about: both variants of
\* src/server.js and part_001
MailServers == {"cjs", "esm", "p001"}

\* C26: in src/server.js (both variants) and part_001, a reservation whose
\* inserts all succeeded and whose confirmation mail then failed is answered
\* with the success result (ok, the count of created events, the price), and
\* the events it created are in the calendar.
C26_MailFailureKeepsSuccess ==
    \A p \in Reqs :
        (variant \in MailServers /\ IsReserve(p) /\ req[p].mailErr) =>
            /\ RespondedOk(p)
            /\ Len(req[p].created) = Len(req[p].horas)
            /\ req[p].slots = req[p].horas
            /\ req[p].precio.horas = Len(req[p].horas)
            /\ \A i \in 1..Len(req[p].created) :
                  \E ev \in EventsBy(p) : ev.id = req[p].created[i]

\* a reservation of the CommonJS variant answered ok after its mail failed
C26_Witness ==
    \E p \in Reqs :
        /\ variant = "cjs" /\ mailer /\ IsReserve(p) /\ req[p].mailErr
        /\ RespondedOk(p) /\ Len(req[p].created) >= 1
        /\ EventsBy(p) # {}

\* requests p and q were the same request, and the same calendar call of each
\* failed
SameFailedRun(p, q) ==
    /\ req[p].kind = req[q].kind /\ req[p].kind \in {"slots", "reserve"}
    /\ req[p].cuidadora = req[q].cuidadora /\ req[p].fecha = req[q].fecha
    /\ req[p].horas = req[q].horas /\ req[p].fieldsOk = req[q].fieldsOk
    /\ Done(p) /\ Done(q)
    /\ req[p].status = 500 /\ req[q].status = 500
    /\ req[p].nlist = req[q].nlist /\ req[p].ninsert = req[q].ninsert

\* C27 as stated: in both variants of src/server.js, the response to a request
\* whose calendar call failed does not depend on the upstream error: two runs
\* of the same request that differ only in the error the calendar threw are
\* answered with the same body.
C27_GenericErrorBody ==
    \A p, q \in Reqs :
        (variant \in ServerJs /\ SameFailedRun(p, q)) =>
            /\ req[p].error = req[q].error
            /\ req[p].detail = req[q].detail
            /\ req[p].slots = req[q].slots

\* the same for the CommonJS variant alone
C27_CjsOnly ==
    variant = "cjs" => C27_GenericErrorBody

IsHealth(p) == req[p].kind = "health"

\* C28 as stated: in src/server.js (both variants) and part_002, GET
\* /api/health answers ok only after a read against the external calendar has
\* succeeded; a health check whose read failed, or that made none, is not
\* answered ok.
C28_HealthReadsCalendar ==
    \A p \in Reqs :
        (variant \in {"cjs", "esm", "p002"} /\ IsHealth(p) /\ RespondedOk(p)) =>
            req[p].read

\* the same for part_002 alone, with the answer of a failed read
C28_P002Only ==
    \A p \in Reqs :
        (variant = "p002" /\ IsHealth(p) /\ Done(p)) =>
            /\ req[p].status = 200 <=> req[p].read
            /\ req[p].status # 200 => req[p].status = 500

\* the calendars that are a configured caregiver's own
CaregiverCalendars == {calendarId(k) : k \in Caregivers}

\* the servers that mirror reservations into ORG_CALENDARS: part_000 and the
\* first server of part_003
MirrorServers == {"p000", "p003a"}

\* C29 as stated: in part_000 and part_003, for every ORG_CALENDARS, a
\* reservation for caregiver X inserts no event into the calendar of another
\* configured caregiver, and at most one event for each requested range into
\* X's own calendar.
C29_MirrorSparesCaregivers ==
    \A p \in Reqs :
        (variant \in MirrorServers /\ IsReserve(p) /\ Resolve(req[p].cuidadora) # "") =>
            LET own == calendarId(Resolve(req[p].cuidadora))
            IN /\ \A ev \in EventsBy(p) :
                     ev.cal \in CaregiverCalendars => ev.cal = own
               /\ \A r \in SeqToSet(req[p].horas) :
                     Cardinality({ev \in EventsBy(p) : ev.cal = own /\ ev.range = r}) <= 1

\* the same when ORG_CALENDARS names no calendar
C29_NoMirrorConfigured ==
    ORG_CALENDARS = <<>> => C29_MirrorSparesCaregivers

Started(p) == req[p].pc # "idle"

\* C30 as stated: in src/server.js every GET /api/slots and POST /api/reserve
\* eventually gets its response, even when an events.list or events.insert
\* call never completes.
C30_EveryRequestAnswered ==
    \A p \in Reqs : (variant \in ServerJs /\ Started(p)) ~> Done(p)

\* what holds: a request is answered unless one of its calendar calls hangs
C30_AnsweredUnlessHung ==
    \A p \in Reqs :
        (variant \in ServerJs /\ Started(p)) ~> (Done(p) \/ req[p].pc = "hung")

\* the servers C31 is checked for: both variants of src/server.js and part_000
MetadataServers == {"cjs", "esm", "p000"}

\* C31 as stated: every event a reservation handler inserted carries, in its
\* extendedProperties.private, the requested range it was made for and the
\* caregiver it was booked for.
C31_EventsCarryMetadata ==
    \A ev \in events :
        (variant \in MetadataServers /\ ev.by # 0) =>
            /\ ev.range # NoRange
            /\ ev.range \in SeqToSet(req[ev.by].horas)
            /\ ev.cuidadora # ""
            /\ ev.cuidadora = Resolve(req[ev.by].cuidadora)

\* the same of part_000 alone
C31_P000Only ==
    variant = "p000" => C31_EventsCarryMetadata

\* the range alone, of the CommonJS variant and part_000
C31_RangeCarried ==
    \A ev \in events :
        (variant \in {"cjs", "p000"} /\ ev.by # 0) =>
            ev.range # NoRange /\ ev.range \in SeqToSet(req[ev.by].horas)

\* a calendar call of request p has thrown: its catch block has answered
CallFailed(p) == Done(p) /\ req[p].status = 500

\* C32: POST /api/reserve in src/server.js never retries a calendar call.  A
\* request makes at most one events.list call and at most one events.insert
\* call for each range it asks for, and from the step in which one of its
\* calendar calls fails it makes no list or insert call any more: it has
\* answered with the error.
C32_NoRetry ==
    /\ [](\A p \in Reqs :
             (variant \in ServerJs /\ IsReserve(p)) =>
                 /\ req[p].nlist <= 1
                 /\ req[p].ninsert <= Len(req[p].horas)
                 /\ CallFailed(p) => req[p].error = "server_error")
    /\ [][\A p \in Reqs :
             (variant \in ServerJs /\ IsReserve(p)' /\ CallFailed(p)') =>
                 /\ req'[p].nlist = req[p].nlist
                 /\ req'[p].ninsert = req[p].ninsert]_vars

\* a reservation in src/server.js of two ranges whose second insert call has failed
C32_Witness ==
    \E p \in Reqs :
        /\ variant \in ServerJs
        /\ IsReserve(p)
        /\ CallFailed(p)
        /\ Len(req[p].horas) = 2
        /\ req[p].ninsert = 2
        /\ Len(req[p].created) = 1

\* the hours of the day a block covers
HoursOf(b) == {h \in 0..23 : b[1] <= h * MinPerHour /\ (h + 1) * MinPerHour <= b[2]}

\* the hours the blocks of a list cover
HoursOfAll(s) == UNION {HoursOf(s[i]) : i \in 1..Len(s)}

\* the lists with the same entries as s, each as many times, in any order
Reorderings(s) ==
    {t \in [1..Len(s) -> SeqToSet(s)] :
        \A x \in SeqToSet(s) :
            Cardinality({i \in 1..Len(s) : t[i] = x}) =
                Cardinality({i \in 1..Len(s) : s[i] = x})}

\* blocks are in catalog order, cover the hours of horas and no other, do not
\* overlap, and none ends at the hour where another starts
Canonical(blocks, horas) ==
    /\ \A i, j \in 1..Len(blocks) : i < j => blocks[i][1] <= blocks[j][1]
    /\ HoursOfAll(blocks) = HoursOfAll(horas)
    /\ \A i, j \in 1..Len(blocks) : i # j => ~overlap(blocks[i], blocks[j])
    /\ \A i, j \in 1..Len(blocks) : i # j => blocks[i][2] # blocks[j][1]

\* the reservations to part_002 that have answered ok with their blocks
Merged(p) == variant = "p002" /\ IsReserve(p) /\ RespondedOk(p)

\* no range is named twice in the list
NoRepeats(s) == \A i, j \in 1..Len(s) : i # j => s[i] # s[j]

\* C33 as stated: mergeContiguousSlots of part_002, for every list of catalog
\* ranges in any order and with or without repeated entries, returns blocks in
\* catalog order that cover exactly the hours of the list, do not overlap,
\* and of which none ends at the hour where another starts; and it returns
\* the same blocks for every permutation of the list.
C33_MergeIsCanonical ==
    \A p \in Reqs :
        Merged(p) =>
            /\ req[p].slots = mergeContiguousSlots(req[p].horas)
            /\ Canonical(req[p].slots, req[p].horas)
            /\ \A t \in Reorderings(req[p].horas) :
                   mergeContiguousSlots(t) = req[p].slots

\* the same for the lists that name no range twice
C33_WithoutRepeats ==
    \A p \in Reqs :
        (Merged(p) /\ NoRepeats(req[p].horas)) =>
            /\ req[p].slots = mergeContiguousSlots(req[p].horas)
            /\ Canonical(req[p].slots, req[p].horas)
            /\ \A t \in Reorderings(req[p].horas) :
                   mergeContiguousSlots(t) = req[p].slots

\* a list of three ranges without repeats, out of catalog order, across the
\* break, has been merged
C33_WithoutRepeatsSeen ==
    \E p \in Reqs :
        /\ Merged(p)
        /\ req[p].horas = <<HourRange(16), HourRange(13), HourRange(12)>>
        /\ req[p].slots = <<Block(12, 14), HourRange(16)>>

IsCancel(p) == req[p].kind = "cancel"

\* the events in the calendar of a caregiver
CalOf(key) == {ev \in events : ev.cal = calendarId(key)}

\* q is an ok cancellation of the ok reservation p: it came after it, for the
\* same caregiver, with exactly the eventIds p returned
Cancels(q, p) ==
    /\ IsReserve(p) /\ RespondedOk(p)
    /\ IsCancel(q) /\ RespondedOk(q)
    /\ p < q
    /\ Resolve(req[q].cuidadora) = Resolve(req[p].cuidadora)
    /\ req[q].eventIds = req[p].created

\* no request but p and q has put an event into a calendar or taken one out
NoOtherWriter(p, q) ==
    \A r \in DOMAIN req \ {p, q} : req[r].created = <<>> /\ req[r].removed = 0

\* C34: in the second server of part_003, an ok POST /api/cancel with the
\* caregiver and exactly the eventIds of an ok reservation removes every event
\* of the reservation and reports as `deleted` the number of events it
\* removed; when nothing else wrote in between, the caregiver's calendar
\* holds the events it held before the reservation, and a GET /api/slots that
\* follows marks the ranges of the reservation free.
C34_ReserveCancelRoundTrip ==
    \A p, q \in DOMAIN req :
        (variant = "p003b" /\ Cancels(q, p)) =>
            /\ EventsBy(p) = {}
            /\ req[q].deleted = req[q].removed
            /\ req[q].deleted = Len(req[p].created)
            /\ NoOtherWriter(p, q) =>
                  /\ CalOf(Resolve(req[p].cuidadora)) = req[p].snap
                  /\ \A g \in DOMAIN req :
                        (/\ IsSlots(g) /\ RespondedOk(g) /\ q < g
                         /\ SameTarget(g, p)) =>
                            \A r \in SeqToSet(req[p].horas) : ~GridTaken(g, r)

\* a reservation of two ranges beside an event made by hand has been
\* cancelled and a slots query has then answered
C34_Witness ==
    \E p, q, g \in DOMAIN req :
        /\ variant = "p003b"
        /\ Cancels(q, p)
        /\ Len(req[p].created) = 2
        /\ req[p].snap # {}
        /\ req[q].removed = 2
        /\ IsSlots(g) /\ RespondedOk(g) /\ q < g /\ SameTarget(g, p)
        /\ \E r \in SeqToSet(Catalog) : GridTaken(g, r)

\* the events in the caregivers' calendars that carry a token
Carrying(tok) == {ev \in events : TokenOf(ev) # 0 /\ TokenOf(ev) = tok}

\* a GET /api/cancel/:token of part_004 that has been answered
CancelAnswered(q) == variant = "p004b" /\ IsCancel(q) /\ Done(q)

\* C35 as stated: GET /api/cancel/:token in part_004, whenever it answers
\* with the success page, has left no event that carries the token in any
\* caregiver's calendar; it leaves every event that does not carry the token
\* as it was; and it answers 404 exactly when it deleted no event with the
\* token.
C35_CancelByToken ==
    /\ [](\A q \in DOMAIN req :
             CancelAnswered(q) =>
                 /\ req[q].status = 200 => Carrying(req[q].token) = {}
                 /\ req[q].status = 404 <=> req[q].removed = 0)
    /\ [][variant = "p004b" =>
             \A ev \in events \ events' :
                 \E q \in DOMAIN req : IsCancel(q) /\ TokenOf(ev) = req[q].token]_vars

\* the first part alone: the success page means no event with the token is left
C35_SuccessMeansGone ==
    \A q \in DOMAIN req :
        (CancelAnswered(q) /\ req[q].status = 200) => Carrying(req[q].token) = {}

\* what holds of the response: the success page exactly when a delete call
\* returned, 404 only when none did and no call of the search threw
C35_ResponseFollowsCount ==
    \A q \in DOMAIN req :
        CancelAnswered(q) =>
            /\ req[q].status = 200 <=> (req[q].removed > 0 /\ req[q].error = "")
            /\ req[q].status = 404 => req[q].removed = 0
            /\ req[q].deleted = req[q].removed

\* what holds of the other events: a cancellation removes only events that
\* carry its token
C35_OthersUntouched ==
    [][variant = "p004b" =>
          \A ev \in events \ events' :
              \E q \in DOMAIN req : IsCancel(q) /\ TokenOf(ev) = req[q].token]_vars

\* two events of one calendar share some time
EventsOverlap(e1, e2) == e1.cal = e2.cal /\ e1.s < e2.e /\ e2.s < e1.e

\* the ranges of a list are distinct and no two of them overlap
Disjoint(horas) ==
    \A i, j \in 1..Len(horas) : i # j => ~overlap(horas[i], horas[j])

\* C36 as stated: one POST /api/reserve in src/server.js never creates two
\* events for the same range or for two ranges that overlap, whatever its
\* `horas` names: no two events of one request share any time.
C36_NoSelfDoubleBooking ==
    \A p \in Reqs :
        (variant \in ServerJs /\ IsReserve(p)) =>
            \A e1, e2 \in EventsBy(p) : e1 # e2 => ~EventsOverlap(e1, e2)

\* the same for the requests whose `horas` are distinct ranges that do not overlap
C36_DisjointHorasOnly ==
    \A p \in Reqs :
        (variant \in ServerJs /\ IsReserve(p) /\ Disjoint(req[p].horas)) =>
            \A e1, e2 \in EventsBy(p) : e1 # e2 => ~EventsOverlap(e1, e2)

\* a request for two distinct hours has made its two events
C36_DisjointHorasSeen ==
    \E p \in Reqs :
        /\ variant \in ServerJs /\ IsReserve(p) /\ RespondedOk(p)
        /\ Disjoint(req[p].horas)
        /\ Cardinality(EventsBy(p)) = 2

\* p and q are two reservations for the same caregiver and date whose ranges
\* are all distinct and do not overlap, on a calendar no other request wrote to
DisjointPair(p, q) ==
    /\ p # q
    /\ IsReserve(p) /\ IsReserve(q)
    /\ Resolve(req[p].cuidadora) # ""
    /\ SameTarget(p, q)
    /\ Disjoint(req[p].horas \o req[q].horas)
    /\ NoOtherWriter(p, q)

\* no calendar or mail call of request p has failed so far
NoCallFailed(p) == req[p].status # 500

\* the events in the caregiver's calendar that request p asked for range r
EventsOfRange(p, r) == {ev \in events : IsEventFor(ev, p, r)}

\* C37 as stated: two concurrent POST /api/reserve in src/server.js for the
\* same caregiver and date and for disjoint sets of free ranges do not
\* interfere, however their list and insert calls interleave: neither is
\* answered a conflict, both answer ok when their calls return, and the
\* calendar then holds exactly one event for each requested range of each.
C37_DisjointDontInterfere ==
    \A p, q \in Reqs :
        (variant \in ServerJs /\ DisjointPair(p, q)) =>
            /\ req[p].status # 409
            /\ (Done(p) /\ NoCallFailed(p)) => RespondedOk(p)
            /\ (RespondedOk(p) /\ RespondedOk(q)) =>
                  /\ \A r \in SeqToSet(req[p].horas) :
                        Cardinality(EventsOfRange(p, r)) = 1
                  /\ Cardinality(EventsBy(p) \cup EventsBy(q)) =
                        Len(req[p].horas) + Len(req[q].horas)

\* the same of the CommonJS variant alone
C37_CjsOnly ==
    variant = "cjs" => C37_DisjointDontInterfere

\* in the CommonJS variant two such requests have interleaved (each listed
\* before the other had finished) and both answered ok
C37_CjsInterleaved ==
    \E p, q \in Reqs :
        /\ variant = "cjs" /\ DisjointPair(p, q)
        /\ RespondedOk(p) /\ RespondedOk(q)
        /\ req[p].snap = {} /\ req[q].snap = {}

\* every requested range of request p has its event: each insert call of the
\* creation loop was made and returned
AllInserted(p) ==
    /\ req[p].todo = <<>>
    /\ req[p].ninsert = Len(req[p].horas)
    /\ Len(req[p].created) = Len(req[p].horas)
    /\ Cardinality(EventsBy(p)) = Len(req[p].horas)

\* request p was turned away or failed: a validation error, a date-policy
\* rejection, a conflict, or a calendar call that threw
EndedInError(p) == Done(p) /\ req[p].status \in {400, 409, 500}

\* C38: in src/server.js a reservation makes at most one mailer.sendMail call,
\* and makes it only after the event of every requested range has been
\* inserted; a request that ends in a validation error, a policy rejection, a
\* conflict or a failed insert makes none, and neither does a slots query.
C38_MailAfterAllInserts ==
    \A p \in Reqs :
        variant \in ServerJs =>
            /\ req[p].nmail <= 1
            /\ req[p].nmail = 1 => (IsReserve(p) /\ mailer /\ AllInserted(p))
            /\ EndedInError(p) => req[p].nmail = 0

\* a reservation of two ranges in src/server.js has sent its mail and answered
\* ok, after another ended in a conflict without one
C38_Witness ==
    \E p, q \in Reqs :
        /\ variant \in ServerJs
        /\ IsReserve(p) /\ RespondedOk(p)
        /\ Len(req[p].horas) = 2
        /\ req[p].nmail = 1
        /\ IsReserve(q) /\ EndedInError(q) /\ req[q].nmail = 0

\* the grid GET /api/slots computes for a caregiver and TargetDay from the
\* calendars as they are
GridNow(key) == SlotsGrid(DayEvents(calendarId(key), TargetDay), TargetDay)

\* request p takes a step
Moves(p) == req'[p] # req[p]

\* C39: in the CommonJS variant of src/server.js each caregiver's calendar is
\* isolated.  What a request for caregiver X lists are events of X's calendar
\* only, a range of X's grid is taken only when an event of X's calendar
\* overlaps it, a reservation for X refuses only ranges an event of X's
\* calendar overlaps, and its events go into X's calendar only; a step of a
\* request for another caregiver Y changes neither X's calendar nor X's grid.
C39_CalendarsIsolated ==
    /\ [](\A p \in Reqs :
             (variant = "cjs" /\ Resolve(req[p].cuidadora) # "") =>
                 LET own == calendarId(Resolve(req[p].cuidadora))
                 IN /\ \A ev \in req[p].snap : ev.cal = own
                    /\ \A ev \in EventsBy(p) : ev.cal = own
                    /\ (IsSlots(p) /\ RespondedOk(p)) =>
                          \A r \in SeqToSet(Catalog) :
                              GridTaken(p, r) <=>
                                  \E ev \in req[p].snap :
                                      ev.cal = own /\ overlap(ev.range, r)
                    /\ (IsReserve(p) /\ req[p].status = 409) =>
                          \A r \in SeqToSet(req[p].slots) :
                              \E ev \in req[p].snap :
                                  ev.cal = own /\ overlap(ev.range, r))
    /\ [][\A p \in Reqs, x \in Caregivers :
             (variant = "cjs" /\ Moves(p) /\ Resolve(req'[p].cuidadora) # x) =>
                 /\ CalOf(x)' = CalOf(x)
                 /\ GridNow(x)' = GridNow(x)]_vars

\* in the CommonJS variant a reservation for Carmen has been answered ok and a
\* slots query for Raquel that listed after it has answered a grid all free
C39_Witness ==
    \E p, g \in Reqs :
        /\ variant = "cjs"
        /\ IsReserve(p) /\ RespondedOk(p) /\ Resolve(req[p].cuidadora) = "Carmen"
        /\ IsSlots(g) /\ RespondedOk(g) /\ Resolve(req[g].cuidadora) = "Raquel"
        /\ CalOf("Carmen") # {}
        /\ req[g].snap = {}
        /\ \A r \in SeqToSet(Catalog) : ~GridTaken(g, r)

=============================================================================
